---- MODULE Spec2Model ----
(***************************************************************************)
(* Registration session client of rust/net/src/registration/service.rs:    *)
(* one client task that runs create_session / resume_session /             *)
(* submit_request through send_request and spawn_connected_chat, the       *)
(* handler tasks (spawned_task_body) that own a ChatConnection each, the   *)
(* chat connections themselves and a clock.  Time is counted in seconds;   *)
(* a timer that has expired must be served before time moves on (tokio     *)
(* timers under a paused or idle runtime).                                 *)
(*                                                                         *)
(* ConnectState of rust/net/src/connect_state.rs: connect_ws calls that     *)
(* snapshot the record of connection outcomes under the read lock, race    *)
(* their routes under connect_timeout and apply the race's outcome updates *)
(* under the write lock, and network_changed, which resets the record.     *)
(* The two parts share no state: Spec runs the registration client,        *)
(* ConnectSpec runs ConnectState.                                          *)
(***************************************************************************)
EXTENDS Integers, Sequences, FiniteSets, TLC

\* ------------------------------------------------------------------ bounds
MaxHandlers == 2          \* handler tasks spawned in one behaviour
MaxIncoming == 3          \* IncomingRequest values created in one behaviour
MaxListenerEvents == 2    \* alerts and messages in one behaviour
MaxConnectFailures == 2   \* retryable connect_chat failures in one spawn call
TickStep == 30            \* largest step of the clock, in seconds
MaxCalls == 3             \* connect_ws calls started in one behaviour
MaxNetworkChanges == 1    \* network_changed calls in one behaviour

\* ------------------------------------------------------- program constants
INACTIVITY_TIMEOUT == 90
REQUEST_TIMEOUT == 30
MAX_PENDING_REQUESTS == 1
AgeCutoff == 60
CooldownGrowthNum == 3
CooldownGrowthDen == 2
CountGrowthFactor == 10
MaxCount == 5
MaxDelay == 30
VeryShort == 1
\* SUGGESTED_CONNECT_PARAMS, and the connect_timeout of the tests, in seconds
SUGGESTED_age_cutoff == 300
SUGGESTED_cooldown_growth_factor == 10
SUGGESTED_max_count == 5
SUGGESTED_max_delay == 30
SUGGESTED_count_growth_factor == 10
CONNECT_TIMEOUT == 31
PRECONNECT_LIFETIME == 60
\* the DNS strategy timeout and the slow lookup of the timing tests
DNS_STRATEGY_TIMEOUT == 7
SLOW_LOOKUP == 3
TLS_HANDSHAKE_LIMIT == 1

Handlers == 1..MaxHandlers
Requests == 1..MaxIncoming

\* ------------------------------------------------------------ value sets
ConnectErrors ==
    {"InvalidConnectionConfiguration", "RetryLater", "Timeout",
     "AllAttemptsFailed", "WebSocket", "AppExpired", "DeviceDeregistered"}

ChatSendErrors ==
    {"RequestTimedOut", "Disconnected", "WebSocket", "IncomingDataInvalid",
     "RequestHasInvalidHeader"}

\* Session ids a caller may supply, and the strings a server may report
\* ("!" does not parse as a SessionId).
SessionIds == {"s1", "s2"}
ResumeIds == {"s1"}
Sessions == {"v1", "v2"}
NoSession == "none"

\* A ChatResponse: either a body that parses as a RegistrationResponse, or
\* one that does not (an error status, a malformed body).
GoodResponses ==
    {[kind |-> "good", session_id |-> "s1", session |-> "v1"],
     [kind |-> "good", session_id |-> "s2", session |-> "v2"],
     [kind |-> "good", session_id |-> "!", session |-> "v1"]}
BadResponse == [kind |-> "bad", session_id |-> "!", session |-> NoSession]
Responses == GoodResponses \cup {BadResponse}
NoValue == [tag |-> "none"]

OkValue(response) == [tag |-> "Ok", response |-> response]
ErrValue(err) == [tag |-> "Err", err |-> err]

VARIABLES
    \* the client task
    op,                 \* "none" | "create" | "resume" | "submit"
    pc,                 \* "idle" | "connect" | "connected" | "sleep" | "send"
                        \* | "await"
    resume_id,          \* the SessionId given to resume_session
    call_sender,        \* send_request's local `sender` (0: none)
    failure_count,      \* spawn_connected_chat
    last_failure_at,    \* seconds since the last failure (-1: None)
    sleep_left,         \* remaining time of tokio::time::sleep(delay)
    connect_calls,      \* connect_chat calls made by this spawn_connected_chat
    connect_result,     \* what connect_chat(..).await resolved to ("none": not yet)
    cur,                \* the IncomingRequest this call waits for (0: none)
    result,             \* what the last finished call returned
    \* the RegistrationService
    service,            \* [exists, session_id, session, sender]
    \* handler tasks
    task,               \* "unspawned" | "running" | "breaking" (left the
                        \* loop) | "disconnecting" (in chat.disconnect().await)
                        \* | "ended" (after it) | "returned" (from inside
                        \* the loop, without chat.disconnect())
    incoming_requests,  \* the mpsc channel's buffer; receiver in rx_open
    rx_open,            \* the Option<Stream> of incoming requests is Some
    request_in_progress,\* 0 (None) or the request whose future is pinned
    fut,                \* "none" | "created" | "sending" | "ready"
    fut_result,         \* what chat.send returned, when fut = "ready"
    idle_elapsed,       \* seconds since timeout(INACTIVITY_TIMEOUT, ..) began
    send_elapsed,       \* seconds since chat.send began
    \* chat connections
    chat_up,            \* the connection is alive (on_disconnect not fired)
    chat_sending,       \* requests with an outstanding chat.send
    wire,               \* requests written to the connection, in order
    request_ids,        \* the ID each written request carries, as in wire
    response_id,        \* the ID of the response chat.send returned with
                        \* (-1: no response)
    listener_log,       \* the events the connection's listener was called
                        \* with, in order
    on_disconnect,      \* DropOnDisconnect's Option<oneshot::Sender>: "none"
                        \* (no connection made) | "held" | "dropped"
    \* IncomingRequest values
    nreq,               \* how many were created
    owner,              \* the handler whose channel the request entered (0:
                        \* none, or the request's oneshot channel is freed)
    receiver,           \* "unused" | "waiting" | "dropped"
    fates,              \* what happened to the responder: subset of {"sent",
                        \* "dropped"}, or {"gone"} once the channel is freed
    reply,              \* the value sent on the responder, if any
    lost_chat,          \* the chat went down while the caller waited for the
                        \* request and before chat.send returned for it
    \* ConnectState and the connect_ws calls on it
    attempts_record,    \* ConnectState::attempts_record: per transport, the
                        \* failure counter and the seconds since the last
                        \* failure (-1: none recorded)
    lock,               \* the tokio RwLock around ConnectState: its writer
                        \* ("none" or a process) and its readers
    ws_pc,              \* per caller: where its connect_ws call is
    routes,             \* per caller: the routes given to the call
    snapshot,           \* per caller: the attempts_record of its snapshot
    attempts,           \* per caller: the state of each route's attempt
    ws_elapsed,         \* per caller: seconds since `start`
    ws_result,          \* per caller: the result of the race, then of the call
    net_pc,             \* where the caller of network_changed is
    ncalls,             \* connect_ws calls started so far
    nchanges,           \* network_changed calls so far
    \* the transport connector and preconnect_and_save
    ws_kind,            \* per caller: "connect_ws" | "preconnect_and_save"
    preconnected,       \* the route of the saved preconnected stream, or
                        \* "none"
    preconnected_age,   \* seconds since that stream was saved
    tls                 \* per caller: how far the default transport
                        \* connector is with each running route: "tcp" |
                        \* "throttled" | "handshake" ("none": not running);
                        \* with the preconnecting connector, where the
                        \* stream of each started route comes from: "cached"
                        \* | "delegated"

registrationVars ==
    <<op, pc, resume_id, call_sender, failure_count, last_failure_at,
      sleep_left, connect_calls, connect_result, cur, result, service, task,
      incoming_requests, rx_open, request_in_progress, fut, fut_result,
      idle_elapsed, send_elapsed, chat_up, chat_sending, wire, request_ids,
      response_id, listener_log, on_disconnect, nreq, owner,
      receiver, fates, reply, lost_chat>>

connectVars ==
    <<attempts_record, lock, ws_pc, routes, snapshot, attempts, ws_elapsed,
      ws_result, net_pc, ncalls, nchanges>>

connectorVars == <<ws_kind, preconnected, preconnected_age, tls>>

vars == <<registrationVars, connectVars, connectorVars>>

clientVars ==
    <<op, pc, resume_id, call_sender, failure_count, last_failure_at,
      sleep_left, connect_calls, connect_result, cur, result, service>>

handlerVars ==
    <<task, incoming_requests, rx_open, request_in_progress, fut, fut_result,
      idle_elapsed, send_elapsed>>

chatVars ==
    <<chat_up, chat_sending, wire, request_ids, response_id, listener_log,
      on_disconnect>>

requestVars == <<nreq, owner, receiver, fates, reply, lost_chat>>

NoService ==
    [exists |-> FALSE, session_id |-> "", session |-> NoSession, sender |-> 0]

\* ------------------------------------------------ ConnectState value sets
\* The tasks that call connect_ws on the one ConnectState.
Callers == {"c1", "c2"}

\* Routes a provider may yield and the transport part of each
\* (into_transport_part): "r2" and "r3" differ in their websocket and http
\* fragments only.
Transports == {"tA", "tB"}
AllRoutes == {"r1", "r2", "r3"}
TransportOf(route) == IF route = "r1" THEN "tA" ELSE "tB"

\* DescribeForLog: the UnresolvedRouteDescription saved with a route.  It
\* does not tell "r2" from "r3".
Describe(route) == IF route = "r1" THEN "tA direct" ELSE "tB fronted"

\* What routes.routes(&route_provider_context).collect_vec() may be.
RouteLists == {<<>>, <<"r1", "r2">>, <<"r2", "r3">>}

\* The errors of one route's attempt, as the connector stack reports them:
\* a websocket error, a transport connector's ClientAbort, the
\* InterfaceMonitor's InterfaceChanged, a rejection by the server that
\* names a time to retry at.
AttemptErrors ==
    {"ConnectionClosed", "ClientAbort", "InterfaceChanged", "RetryAfter"}

\* What the connector of preconnect_and_save can return for a route instead
\* of a stream: the InterfaceMonitor's InterfaceChanged or a
\* TransportConnectError.
TransportErrors == {"TcpConnectionFailed", "ClientAbort", "InterfaceChanged"}

\* A transport without a recorded failure, the record of
\* ConnectionOutcomes::new, and the RwLock nobody holds.
NoFailures == [count |-> 0, age |-> -1]
NewRecord == [t \in Transports |-> NoFailures]
Unlocked == [writer |-> "none", readers |-> {}]
NoResult == [tag |-> "none"]

\* ConnectState::new_with_transport_connector, and no call running.
ConnectStateNew ==
    /\ attempts_record = NewRecord
    /\ lock = Unlocked
    /\ ws_pc = [c \in Callers |-> "idle"]
    /\ routes = [c \in Callers |-> <<>>]
    /\ snapshot = [c \in Callers |-> NewRecord]
    /\ attempts = [c \in Callers |-> <<>>]
    /\ ws_elapsed = [c \in Callers |-> 0]
    /\ ws_result = [c \in Callers |-> NoResult]
    /\ net_pc = "idle"
    /\ ncalls = 0
    /\ nchanges = 0
    /\ ws_kind = [c \in Callers |-> "connect_ws"]
    /\ preconnected = "none"
    /\ preconnected_age = 0
    /\ tls = [c \in Callers |-> <<>>]

\* No RegistrationService, no handler task, no connection and no request.
NoTaskSpawned ==
    /\ service = NoService
    /\ task = [h \in Handlers |-> "unspawned"]
    /\ incoming_requests = [h \in Handlers |-> <<>>]
    /\ rx_open = [h \in Handlers |-> FALSE]
    /\ request_in_progress = [h \in Handlers |-> 0]
    /\ fut = [h \in Handlers |-> "none"]
    /\ fut_result = [h \in Handlers |-> NoValue]
    /\ idle_elapsed = [h \in Handlers |-> 0]
    /\ send_elapsed = [h \in Handlers |-> 0]
    /\ chat_up = [h \in Handlers |-> FALSE]
    /\ chat_sending = [h \in Handlers |-> {}]
    /\ wire = [h \in Handlers |-> <<>>]
    /\ request_ids = [h \in Handlers |-> <<>>]
    /\ response_id = [h \in Handlers |-> -1]
    /\ listener_log = [h \in Handlers |-> <<>>]
    /\ on_disconnect = [h \in Handlers |-> "none"]
    /\ nreq = 0
    /\ owner = [r \in Requests |-> 0]
    /\ receiver = [r \in Requests |-> "unused"]
    /\ fates = [r \in Requests |-> {}]
    /\ reply = [r \in Requests |-> NoValue]
    /\ lost_chat = [r \in Requests |-> FALSE]

Init ==
    /\ ConnectStateNew
    /\ op = "none"
    /\ pc = "idle"
    /\ resume_id = ""
    /\ call_sender = 0
    /\ failure_count = 0
    /\ last_failure_at = -1
    /\ sleep_left = 0
    /\ connect_calls = 0
    /\ connect_result = "none"
    /\ cur = 0
    /\ result = "none"
    /\ NoTaskSpawned

\* ------------------------------------------------------- pure functions

Min(a, b) == IF a <= b THEN a ELSE b

RECURSIVE Pow(_, _)
Pow(b, n) == IF n = 0 THEN 1 ELSE b * Pow(b, n - 1)

\* The delay without the cut at max_delay.
compute_delay_uncapped(since, count) ==
    IF since = -1 \/ since >= AgeCutoff
    THEN 0
    ELSE LET n == Min(count, MaxCount)
             base == Pow(CooldownGrowthNum, n) \div Pow(CooldownGrowthDen, n)
         IN  IF since < VeryShort
             THEN base * Pow(CountGrowthFactor, n)
             ELSE base

\* ConnectionOutcomeParams::compute_delay with CHAT_CONNECT_DELAY_PARAMS, in
\* whole seconds.  since = -1 stands for Duration::MAX (no previous failure).
compute_delay(since, count) ==
    IF since = -1 \/ since >= AgeCutoff
    THEN 0
    ELSE LET n == Min(count, MaxCount)
             base == Pow(CooldownGrowthNum, n) \div Pow(CooldownGrowthDen, n)
             grown == IF since < VeryShort
                      THEN base * Pow(CountGrowthFactor, n)
                      ELSE base
         IN  Min(grown, MaxDelay)

\* The match with Timeout moved to the errors that are returned.
ConnectErrorClassTimeoutFatal(err) ==
    CASE err = "InvalidConnectionConfiguration" -> "InvalidConfiguration"
      [] err = "RetryLater" -> "RetryLater"
      [] err \in {"AllAttemptsFailed", "WebSocket"} -> "retry"
      [] err \in {"Timeout", "AppExpired", "DeviceDeregistered"} -> "Unexpected"

\* The match with RetryLater moved to the errors that are retried.
ConnectErrorClassRetryLaterRetried(err) ==
    CASE err = "InvalidConnectionConfiguration" -> "InvalidConfiguration"
      [] err \in {"RetryLater", "Timeout", "AllAttemptsFailed", "WebSocket"} ->
           "retry"
      [] err \in {"AppExpired", "DeviceDeregistered"} -> "Unexpected"

\* spawn_connected_chat's match on a ChatConnectError: "retry", or the
\* FatalConnectError it returns.
ConnectErrorClass(err) ==
    CASE err = "InvalidConnectionConfiguration" -> "InvalidConfiguration"
      [] err = "RetryLater" -> "RetryLater"
      [] err \in {"Timeout", "AllAttemptsFailed", "WebSocket"} -> "retry"
      [] err \in {"AppExpired", "DeviceDeregistered"} -> "Unexpected"

\* impl From<FatalConnectError> for RequestError<E>: the RequestError, with
\* the message of an Unknown.
FromFatalConnectError(fatal, message) ==
    CASE fatal = "InvalidConfiguration" ->
           "Unknown(invalid chat client configuration)"
      [] fatal = "RetryLater" -> "RetryLater"
      [] fatal = "Unexpected" -> "Unknown(unexpected error: " \o message \o ")"

\* The message spawn_connected_chat puts into FatalConnectError::Unexpected.
UnexpectedMessage(err) ==
    CASE err = "AppExpired" -> "unauthenticated socket signaled app expired"
      [] err = "DeviceDeregistered" ->
           "unauthenticated socket signaled deregistration"
      [] OTHER -> ""

\* What send_request returns for a fatal connect error.
FatalResult(fatal, err) == FromFatalConnectError(fatal, UnexpectedMessage(err))

\* The map_err with RequestTimedOut mapped like Disconnected.
MapSendErrorTimeoutAsLost(err) ==
    CASE err \in {"RequestTimedOut", "Disconnected"} -> "ConnectionLost"
      [] err = "WebSocket" -> "Unknown(websocket error)"
      [] err = "IncomingDataInvalid" -> "Unknown(received invalid response)"
      [] err = "RequestHasInvalidHeader" -> "Unknown(request had invalid header)"

\* send_request_to_connected_chat's map_err on the ChatSendError.
MapSendError(err) ==
    CASE err = "RequestTimedOut" -> "RequestTimedOut"
      [] err = "Disconnected" -> "ConnectionLost"
      [] err = "WebSocket" -> "Unknown(websocket error)"
      [] err = "IncomingDataInvalid" -> "Unknown(received invalid response)"
      [] err = "RequestHasInvalidHeader" -> "Unknown(request had invalid header)"

\* What send_request_to_connected_chat returns once the oneshot receiver
\* resolves: the responder was dropped (RecvError), or it carried a value.
ReceiverOutcome(r) ==
    IF reply[r].tag = "none" THEN "ConnectionLost"
    ELSE IF reply[r].tag = "Ok" THEN "Ok"
    ELSE MapSendError(reply[r].err)

\* The match without its `continue` arm: ConnectionLost is returned like
\* any other error.
SendRequestMatchWithoutContinue(outcome) ==
    CASE outcome = "Ok" -> "Ok"
      [] outcome = "RequestTimedOut" -> "Timeout"
      [] OTHER -> outcome

\* send_request's match on that outcome: "continue" (loop again), or the
\* result it returns.
SendRequestMatch(outcome) ==
    CASE outcome = "ConnectionLost" -> "continue"
      [] outcome = "Ok" -> "Ok"
      [] outcome = "RequestTimedOut" -> "Timeout"
      [] OTHER -> outcome

\* response.try_into() for RegistrationResponse, and session_id.parse().
ParsesAsRegistrationResponse(response) == response.kind = "good"
ParsesAsSessionId(s) == s \in SessionIds

\* A live mpsc::Sender for handler h exists: the one in the service, or the
\* clone held by the running call.
SenderAlive(h) == (service.exists /\ service.sender = h) \/ call_sender = h

\* The receiving half of handler h's channel still exists.
ChannelOpen(h) == rx_open[h]

\* The task uses up the responders of the requests in R: a value is sent
\* ("sent": Ok(response) or Err(SendError), as reply tells) or they are
\* dropped without one ("dropped").  A oneshot channel whose receiver is
\* dropped already is freed by that ("gone"), and nothing of the request is
\* left.
Decide(R, what) ==
    /\ fates' = [r \in Requests |->
                   IF r \notin R THEN fates[r]
                   ELSE IF fates[r] = {} /\ receiver[r] = "dropped"
                        THEN {"gone"}
                        ELSE fates[r] \cup {what}]
    /\ owner' = [r \in Requests |->
                   IF r \in R /\ receiver[r] = "dropped" THEN 0 ELSE owner[r]]
    /\ UNCHANGED lost_chat

\* The oneshot receiver of request r is dropped, with the value it may hold:
\* send_request_to_connected_chat returned, or its future was dropped.
\* `unsent`: the responder is dropped with it, never having entered a
\* channel.  If the responder is used up, the channel is freed ("gone").
DropReceiver(r, unsent) ==
    /\ receiver' = [receiver EXCEPT ![r] = "dropped"]
    /\ reply' = [reply EXCEPT ![r] = NoValue]
    /\ lost_chat' = [lost_chat EXCEPT ![r] = FALSE]
    /\ fates' = [fates EXCEPT ![r] = IF unsent \/ @ # {} THEN {"gone"} ELSE @]
    /\ owner' = [owner EXCEPT ![r] = IF fates[r] # {} THEN 0 ELSE @]

\* ------------------------------------------------------- the client task

\* let (responder, receiver) = oneshot::channel(), at the start of
\* send_request_to_connected_chat for sender h.
NewIncomingRequest(h, up) ==
    /\ nreq < MaxIncoming
    /\ nreq' = nreq + 1
    /\ cur' = nreq + 1
    /\ receiver' = [receiver EXCEPT ![nreq + 1] = "waiting"]
    /\ lost_chat' = [lost_chat EXCEPT ![nreq + 1] = ~up]
    /\ call_sender' = h
    /\ pc' = "send"
    /\ UNCHANGED <<owner, fates, reply>>

\* The model has a handler task and an IncomingRequest left for a new
\* connection.
CanConnect == nreq < MaxIncoming /\ \E h \in Handlers : task[h] = "unspawned"

\* send_request with sender = None: spawn_connected_chat starts and makes its
\* first connect_chat call.
EnterSpawn ==
    /\ pc' = "connect"
    /\ call_sender' = 0
    /\ failure_count' = 0
    /\ last_failure_at' = -1
    /\ sleep_left' = 0
    /\ connect_calls' = 1
    /\ connect_result' = "none"
    /\ cur' = 0

create_session ==
    /\ pc = "idle"
    /\ ~service.exists
    /\ CanConnect
    /\ op' = "create"
    /\ result' = "none"
    /\ EnterSpawn
    /\ UNCHANGED <<resume_id, service, handlerVars, chatVars, requestVars>>

resume_session(id) ==
    /\ pc = "idle"
    /\ ~service.exists
    /\ CanConnect
    /\ op' = "resume"
    /\ resume_id' = id
    /\ result' = "none"
    /\ EnterSpawn
    /\ UNCHANGED <<service, handlerVars, chatVars, requestVars>>

\* submit_request: send_request with Some(sender); the loop takes it.
submit_request ==
    /\ pc = "idle"
    /\ service.exists
    /\ op' = "submit"
    /\ result' = "none"
    /\ NewIncomingRequest(service.sender, chat_up[service.sender])
    /\ UNCHANGED <<resume_id, failure_count, last_failure_at, sleep_left,
                   connect_calls, connect_result, service, handlerVars,
                   chatVars>>

\* The RegistrationService is dropped, and its sender with it.
drop_service ==
    /\ pc = "idle"
    /\ service.exists
    /\ service' = NoService
    /\ UNCHANGED <<op, pc, resume_id, call_sender, failure_count,
                   last_failure_at, sleep_left, connect_calls, connect_result,
                   cur, result, handlerVars, chatVars, requestVars>>

\* The call is over: its locals are gone.
DropLocals ==
    /\ pc' = "idle"
    /\ op' = "none"
    /\ resume_id' = ""
    /\ call_sender' = 0
    /\ cur' = 0
    /\ failure_count' = 0
    /\ last_failure_at' = -1
    /\ sleep_left' = 0
    /\ connect_calls' = 0
    /\ connect_result' = "none"

\* The call returns an error: its local sender is dropped.
ReturnError(err) ==
    /\ result' = err
    /\ DropLocals

\* connect_chat(on_disconnect_tx).await resolves to Ok or to an error.  At
\* most MaxConnectFailures retryable errors are returned to one call, and a
\* connection is made only while the model has a task and a request left.
ConnectChatReturns(res) ==
    /\ pc = "connect"
    /\ (res # "Ok" /\ ConnectErrorClass(res) = "retry")
          => failure_count < MaxConnectFailures
    /\ res = "Ok" => CanConnect
    /\ connect_result' = res
    /\ pc' = "connected"
    /\ UNCHANGED <<op, resume_id, call_sender, failure_count, last_failure_at,
                   sleep_left, connect_calls, cur, result, service,
                   handlerVars, chatVars, requestVars>>

\* Ok(chat): the loop breaks, the handler task is spawned and send_request
\* goes on to send the request on the new sender.
SpawnTask ==
    /\ pc = "connected"
    /\ connect_result = "Ok"
    /\ \E h \in Handlers :
        /\ task[h] = "unspawned"
        /\ \A g \in Handlers : g < h => task[g] # "unspawned"
        /\ task' = [task EXCEPT ![h] = "running"]
        /\ rx_open' = [rx_open EXCEPT ![h] = TRUE]
        /\ chat_up' = [chat_up EXCEPT ![h] = TRUE]
        /\ on_disconnect' = [on_disconnect EXCEPT ![h] = "held"]
        /\ NewIncomingRequest(h, TRUE)
    /\ connect_result' = "none"
    /\ failure_count' = 0
    /\ last_failure_at' = -1
    /\ connect_calls' = 0
    /\ UNCHANGED <<op, resume_id, sleep_left, result, service,
                   incoming_requests, request_in_progress, fut, fut_result,
                   idle_elapsed, send_elapsed,
                   chat_sending, wire, request_ids, response_id,
                   listener_log>>

\* Err(err): a retryable error starts the sleep before the next attempt,
\* any other error is returned as a FatalConnectError.
ConnectFailed ==
    /\ pc = "connected"
    /\ connect_result # "Ok"
    /\ IF ConnectErrorClass(connect_result) = "retry"
       THEN /\ sleep_left' = compute_delay(last_failure_at, failure_count)
            /\ last_failure_at' = 0
            /\ pc' = "sleep"
            /\ connect_result' = "none"
            /\ UNCHANGED <<op, resume_id, call_sender, cur, result,
                           failure_count, connect_calls>>
       ELSE ReturnError(FatalResult(ConnectErrorClass(connect_result),
                                    connect_result))
    /\ UNCHANGED <<service, handlerVars, chatVars, requestVars>>

\* A loop that goes on without counting the failure.
SleepDoneWithoutCount ==
    /\ pc = "sleep"
    /\ sleep_left = 0
    /\ connect_calls' = connect_calls + 1
    /\ pc' = "connect"
    /\ UNCHANGED <<op, resume_id, call_sender, failure_count, last_failure_at,
                   sleep_left, connect_result, cur, result, service,
                   handlerVars, chatVars, requestVars>>

\* tokio::time::sleep(delay) is over: failure_count += 1; continue, which
\* calls connect_chat again.
SleepDone ==
    /\ pc = "sleep"
    /\ sleep_left = 0
    /\ failure_count' = failure_count + 1
    /\ connect_calls' = connect_calls + 1
    /\ pc' = "connect"
    /\ UNCHANGED <<op, resume_id, call_sender, last_failure_at, sleep_left,
                   connect_result, cur, result, service, handlerVars,
                   chatVars, requestVars>>

\* sender.send((request, responder)).await with room in the channel.
SendToTask ==
    /\ pc = "send"
    /\ ChannelOpen(call_sender)
    /\ Len(incoming_requests[call_sender]) < MAX_PENDING_REQUESTS
    /\ incoming_requests' =
         [incoming_requests EXCEPT ![call_sender] = Append(@, cur)]
    /\ owner' = [owner EXCEPT ![cur] = call_sender]
    /\ pc' = "await"
    /\ UNCHANGED <<op, resume_id, call_sender, failure_count, last_failure_at,
                   sleep_left, connect_calls, connect_result, cur, result,
                   service, task, rx_open, request_in_progress, fut, fut_result,
                   idle_elapsed, send_elapsed,
                   chatVars, nreq, receiver, fates, reply, lost_chat>>

\* create_session building the service with a default session instead of
\* the one in the response.
CreatedServiceDefaultSession(response, sender) ==
    IF ParsesAsRegistrationResponse(response)
       /\ ParsesAsSessionId(response.session_id)
    THEN [exists |-> TRUE, session_id |-> response.session_id,
          session |-> NoSession, sender |-> sender]
    ELSE NoService

\* RegistrationService::create_session after send_request returned
\* (response, sender): the service it builds, or NoService on an error.
CreatedService(response, sender) ==
    IF ParsesAsRegistrationResponse(response)
       /\ ParsesAsSessionId(response.session_id)
    THEN [exists |-> TRUE, session_id |-> response.session_id,
          session |-> response.session, sender |-> sender]
    ELSE NoService

\* resume_session taking the session_id of the response.
ResumedServiceWithServerId(id, response, sender) ==
    IF ParsesAsRegistrationResponse(response)
    THEN [exists |-> TRUE, session_id |-> response.session_id,
          session |-> response.session, sender |-> sender]
    ELSE NoService

\* RegistrationService::resume_session after send_request returned.
ResumedService(id, response, sender) ==
    IF ParsesAsRegistrationResponse(response)
    THEN [exists |-> TRUE, session_id |-> id,
          session |-> response.session, sender |-> sender]
    ELSE NoService

\* submit_request storing the response's session before the response is
\* checked.
SubmittedServiceStoresUnchecked(svc, response, sender) ==
    [svc EXCEPT !.sender = sender, !.session = response.session]

\* RegistrationService::submit_request after send_request returned: the
\* sender is replaced first, the session only if the response parses.
SubmittedService(svc, response, sender) ==
    [svc EXCEPT !.sender = sender,
                !.session = IF ParsesAsRegistrationResponse(response)
                            THEN response.session ELSE @]

\* The Result the entry point returns for a response: Ok(Self) from
\* create_session and resume_session, Ok(()) from submit_request.
ResponseResult(o, response) ==
    IF ParsesAsRegistrationResponse(response)
       /\ (o = "create" => ParsesAsSessionId(response.session_id))
    THEN (IF o = "submit" THEN "Ok(())" ELSE "Ok(Self)")
    ELSE "ResponseError"

\* send_request returned Ok((response, sender)) to the entry point.
FinishOk(response) ==
    /\ service' = CASE op = "create" -> CreatedService(response, call_sender)
                    [] op = "resume" ->
                         ResumedService(resume_id, response, call_sender)
                    [] op = "submit" ->
                         SubmittedService(service, response, call_sender)
    /\ result' = ResponseResult(op, response)
    /\ DropLocals

\* One turn of send_request's loop after send_request_to_connected_chat
\* returned `outcome` for a request whose reply (if any) is `value`.
AfterSend(outcome, value) ==
    LET next == SendRequestMatch(outcome) IN
    CASE next = "continue" ->
           EnterSpawn /\ UNCHANGED <<op, resume_id, result, service>>
      [] next = "Ok" -> FinishOk(value.response)
      [] OTHER -> ReturnError(next) /\ UNCHANGED service

\* sender.send(..).await fails: the receiving half is gone.
SendToTaskClosed ==
    /\ pc = "send"
    /\ ~ChannelOpen(call_sender)
    /\ AfterSend("ConnectionLost", NoValue)
    /\ DropReceiver(cur, TRUE)
    /\ UNCHANGED <<handlerVars, chatVars, nreq>>

\* receiver.await resolves: a value was sent, or the responder was dropped.
ReceiveReply ==
    /\ pc = "await"
    /\ fates[cur] # {}
    /\ AfterSend(ReceiverOutcome(cur), reply[cur])
    /\ DropReceiver(cur, FALSE)
    /\ UNCHANGED <<handlerVars, chatVars, nreq>>

\* The caller drops the future of the running call (its own deadline).
CancelCall ==
    /\ pc \in {"connect", "sleep", "send", "await"}
    /\ result' = "Cancelled"
    /\ DropLocals
    /\ IF cur # 0 THEN DropReceiver(cur, pc = "send")
       ELSE UNCHANGED <<owner, receiver, fates, reply, lost_chat>>
    /\ UNCHANGED <<service, handlerVars, chatVars, nreq>>

\* ------------------------------------------------------ the handler task

Range(s) == {s[i] : i \in 1..Len(s)}

\* A loop that polls incoming requests whether or not one is in progress.
WaitsForIncomingAlways(h) == task[h] = "running"

\* Top of spawned_task_body's loop: incoming requests are polled only when
\* no request is in progress.
WaitsForIncoming(h) == request_in_progress[h] = 0

\* The inactivity timeout built with the per-request timeout.
InactivityElapsedAtRequestTimeout(h) == idle_elapsed[h] >= REQUEST_TIMEOUT

\* tokio::time::timeout(INACTIVITY_TIMEOUT, ..) has elapsed.
InactivityElapsed(h) == idle_elapsed[h] >= INACTIVITY_TIMEOUT

\* start_request without its is_closed check.
ResponderIsClosedUnchecked(r) == FALSE

\* responder.is_closed() at the start of start_request.
ResponderIsClosed(r) == receiver[r] = "dropped"

\* responder.closed() in start_request's select, and a failing
\* responder.send: the receiver is gone.
ResponderClosed(r) == receiver[r] = "dropped"

\* A task end that leaks the request future in progress.
DroppedAtEndQueueOnly(h) == Range(incoming_requests[h])

\* A task that drops only the responder of its request in progress.
DroppedAtEndInProgressOnly(h) ==
    IF request_in_progress[h] # 0 THEN {request_in_progress[h]} ELSE {}

\* The responders dropped with the task's state when it ends: those still in
\* the channel and the one held by the request in progress.
DroppedAtEnd(h) ==
    Range(incoming_requests[h])
      \cup (IF request_in_progress[h] # 0 THEN {request_in_progress[h]} ELSE {})

ListenerFinishedOnEveryEnd(h) ==
    /\ listener_log' = [listener_log EXCEPT ![h] = Append(@, "Finished")]
    /\ on_disconnect' = [on_disconnect EXCEPT ![h] = "dropped"]

\* The connection ends, once: its listener is called with Finished, and
\* DropOnDisconnect's listener drops the on_disconnect sender.
ListenerFinished(h) ==
    IF chat_up[h]
    THEN /\ listener_log' = [listener_log EXCEPT ![h] = Append(@, "Finished")]
         /\ on_disconnect' = [on_disconnect EXCEPT ![h] = "dropped"]
    ELSE UNCHANGED <<listener_log, on_disconnect>>

\* The task drops its state: after the loop, where it goes on to call
\* chat.disconnect(), or by returning from inside the loop.
EndTask(h, disconnects) ==
    /\ task' = [task EXCEPT ![h] = IF disconnects THEN "disconnecting"
                                    ELSE "returned"]
    /\ rx_open' = [rx_open EXCEPT ![h] = FALSE]
    /\ incoming_requests' = [incoming_requests EXCEPT ![h] = <<>>]
    /\ request_in_progress' = [request_in_progress EXCEPT ![h] = 0]
    /\ fut' = [fut EXCEPT ![h] = "none"]
    /\ fut_result' = [fut_result EXCEPT ![h] = NoValue]
    /\ idle_elapsed' = [idle_elapsed EXCEPT ![h] = 0]
    /\ send_elapsed' = [send_elapsed EXCEPT ![h] = 0]
    /\ chat_up' = [chat_up EXCEPT ![h] = FALSE]
    /\ ListenerFinished(h)
    /\ chat_sending' = [chat_sending EXCEPT ![h] = {}]
    /\ wire' = [wire EXCEPT ![h] = <<>>]
    /\ request_ids' = [request_ids EXCEPT ![h] = <<>>]
    /\ response_id' = [response_id EXCEPT ![h] = -1]
    /\ Decide(DroppedAtEnd(h), "dropped")
    /\ UNCHANGED <<nreq, receiver, reply, clientVars>>

\* The request future is done: request_in_progress.set(None), and the next
\* loop turn starts a new inactivity timeout.
RequestFinished(h) ==
    /\ request_in_progress' = [request_in_progress EXCEPT ![h] = 0]
    /\ fut' = [fut EXCEPT ![h] = "none"]
    /\ fut_result' = [fut_result EXCEPT ![h] = NoValue]
    /\ response_id' = [response_id EXCEPT ![h] = -1]
    /\ idle_elapsed' = [idle_elapsed EXCEPT ![h] = 0]
    /\ send_elapsed' = [send_elapsed EXCEPT ![h] = 0]

\* A handler that polls its channel while a request is in progress.
TakeIncomingWhileSending(h) ==
    /\ task[h] = "running"
    /\ rx_open[h]
    /\ incoming_requests[h] # <<>>
    /\ request_in_progress' =
         [request_in_progress EXCEPT ![h] = Head(incoming_requests[h])]
    /\ incoming_requests' = [incoming_requests EXCEPT ![h] = Tail(@)]
    /\ fut' = [fut EXCEPT ![h] = "created"]
    /\ idle_elapsed' = [idle_elapsed EXCEPT ![h] = 0]
    /\ UNCHANGED <<task, rx_open, fut_result, send_elapsed, chatVars, requestVars, clientVars>>

\* Event::Incoming(Ok(Some(request))).
TakeIncoming(h) ==
    /\ task[h] = "running"
    /\ WaitsForIncoming(h)
    /\ rx_open[h]
    /\ incoming_requests[h] # <<>>
    /\ request_in_progress' =
         [request_in_progress EXCEPT ![h] = Head(incoming_requests[h])]
    /\ incoming_requests' = [incoming_requests EXCEPT ![h] = Tail(@)]
    /\ fut' = [fut EXCEPT ![h] = "created"]
    /\ idle_elapsed' = [idle_elapsed EXCEPT ![h] = 0]
    /\ UNCHANGED <<task, rx_open, fut_result, send_elapsed, chatVars, requestVars, clientVars>>

\* The ID the connection gives to the next request written to it: a counter
\* of the connection, 0 on a new connection.
NextRequestId(h) ==
    IF request_ids[h] = <<>> THEN 0
    ELSE request_ids[h][Len(request_ids[h])] + 1

\* First poll of start_request: return at once if the responder is closed,
\* else start chat.send(request, REQUEST_TIMEOUT).
StartRequest(h) ==
    LET r == request_in_progress[h] IN
    /\ task[h] = "running"
    /\ fut[h] = "created"
    /\ IF ResponderIsClosed(r)
       THEN /\ RequestFinished(h)
            /\ Decide({r}, "dropped")
            /\ UNCHANGED <<chat_sending, wire, request_ids>>
       ELSE /\ fut' = [fut EXCEPT ![h] = "sending"]
            /\ chat_sending' = [chat_sending EXCEPT ![h] = @ \cup {r}]
            /\ wire' = IF chat_up[h] THEN [wire EXCEPT ![h] = Append(@, r)]
                       ELSE wire
            /\ request_ids' =
                 IF chat_up[h]
                 THEN [request_ids EXCEPT ![h] = Append(@, NextRequestId(h))]
                 ELSE request_ids
            /\ UNCHANGED <<request_in_progress, fut_result, response_id,
                           idle_elapsed, send_elapsed, owner, fates,
                           lost_chat>>
    /\ UNCHANGED <<task, incoming_requests, rx_open,
                   chat_up, listener_log, on_disconnect, nreq, receiver,
                   reply, clientVars>>

\* start_request's select: responder.closed() wins, the send is abandoned.
RequestCancelled(h) ==
    LET r == request_in_progress[h] IN
    /\ task[h] = "running"
    /\ fut[h] \in {"sending", "ready"}
    /\ ResponderClosed(r)
    /\ RequestFinished(h)
    /\ chat_sending' = [chat_sending EXCEPT ![h] = @ \ {r}]
    /\ Decide({r}, "dropped")
    /\ UNCHANGED <<task, incoming_requests, rx_open,
                   chat_up, listener_log, on_disconnect, wire, request_ids,
                   nreq, receiver, reply,
                   clientVars>>

\* start_request's select: chat.send finished; responder.send(result).
RequestCompletes(h) ==
    LET r == request_in_progress[h] IN
    /\ task[h] = "running"
    /\ fut[h] = "ready"
    /\ RequestFinished(h)
    /\ IF ResponderClosed(r)
       THEN /\ Decide({r}, "dropped")
            /\ UNCHANGED reply
       ELSE /\ Decide({r}, "sent")
            /\ reply' = [reply EXCEPT ![r] = fut_result[h]]
    /\ UNCHANGED <<task, incoming_requests, rx_open, chat_up, chat_sending,
                   listener_log, on_disconnect, wire, request_ids, nreq,
                   receiver, clientVars>>

\* A handler that finds its channel closed only when the inactivity timeout
\* has elapsed.
IncomingClosedAtTimeout(h) ==
    /\ task[h] = "running"
    /\ WaitsForIncoming(h)
    /\ rx_open[h]
    /\ incoming_requests[h] = <<>>
    /\ ~SenderAlive(h)
    /\ InactivityElapsed(h)
    /\ EndTask(h, TRUE)

\* Event::Incoming(Ok(None)): every sender is gone and the channel is empty;
\* the loop breaks at its next turn.
IncomingClosed(h) ==
    /\ task[h] = "running"
    /\ WaitsForIncoming(h)
    /\ rx_open[h]
    /\ incoming_requests[h] = <<>>
    /\ ~SenderAlive(h)
    /\ EndTask(h, TRUE)

\* Event::Incoming(Err(Elapsed)): the inactivity timeout found the channel
\* empty; the loop breaks.  The receiver is dropped only after the loop, so
\* a sender on another thread can still put a request into the channel.
InactivityTimeout(h) ==
    /\ task[h] = "running"
    /\ WaitsForIncoming(h)
    /\ rx_open[h]
    /\ incoming_requests[h] = <<>>
    /\ SenderAlive(h)
    /\ InactivityElapsed(h)
    /\ task' = [task EXCEPT ![h] = "breaking"]
    /\ idle_elapsed' = [idle_elapsed EXCEPT ![h] = 0]
    /\ UNCHANGED <<incoming_requests, rx_open, request_in_progress, fut,
                   fut_result, send_elapsed, chatVars,
                   requestVars, clientVars>>

LeaveLoopWithoutDisconnect(h) ==
    /\ task[h] = "breaking"
    /\ EndTask(h, FALSE)

\* After the loop: incoming_requests.set(None); chat.disconnect().await.
LeaveLoop(h) ==
    /\ task[h] = "breaking"
    /\ EndTask(h, TRUE)

\* A select without its on_disconnect branch.
DisconnectedNeverSeen(h) == FALSE /\ UNCHANGED vars

\* chat.disconnect().await returns and the task ends.
DisconnectReturns(h) ==
    /\ task[h] = "disconnecting"
    /\ task' = [task EXCEPT ![h] = "ended"]
    /\ UNCHANGED <<incoming_requests, rx_open, request_in_progress, fut,
                   fut_result, idle_elapsed, send_elapsed, chatVars,
                   requestVars, clientVars>>

\* Event::Disconnected: on_disconnect resolved; the task returns.
Disconnected(h) ==
    /\ task[h] = "running"
    /\ ~chat_up[h]
    /\ EndTask(h, FALSE)

\* -------------------------------------------------- the chat connection

ResponseTargetAnyPending(h, k) ==
    IF chat_sending[h] = {} THEN 0 ELSE CHOOSE r \in chat_sending[h] : TRUE

\* The request whose chat.send gets the response carrying ID k: the one that
\* was written with that ID, while its send is outstanding (0: nobody, the
\* response is discarded).
ResponseTarget(h, k) ==
    LET written == {i \in DOMAIN request_ids[h] : request_ids[h][i] = k} IN
    IF written = {} THEN 0
    ELSE LET r == wire[h][CHOOSE i \in written : TRUE] IN
         IF r \in chat_sending[h] THEN r ELSE 0

\* chat.send can return `value` now.
ChatSendCanReturn(h, value) ==
    CASE value.tag = "Ok" ->
           /\ chat_up[h]
           /\ \E k \in Range(request_ids[h]) :
                ResponseTarget(h, k) = request_in_progress[h]
      [] value.tag = "Err" /\ value.err = "RequestTimedOut" ->
           send_elapsed[h] >= REQUEST_TIMEOUT
      [] value.tag = "Err" /\ value.err = "Disconnected" -> ~chat_up[h]
      [] OTHER -> chat_up[h]

\* ChatConnection::send resolves for the request in progress.
ChatSendReturns(h, value) ==
    /\ task[h] = "running"
    /\ fut[h] = "sending"
    /\ ChatSendCanReturn(h, value)
    /\ fut' = [fut EXCEPT ![h] = "ready"]
    /\ fut_result' = [fut_result EXCEPT ![h] = value]
    /\ IF value.tag = "Ok"
       THEN \E k \in Range(request_ids[h]) :
              /\ ResponseTarget(h, k) = request_in_progress[h]
              /\ response_id' = [response_id EXCEPT ![h] = k]
       ELSE UNCHANGED response_id
    /\ chat_sending' = [chat_sending EXCEPT ![h] = @ \ {request_in_progress[h]}]
    /\ UNCHANGED <<task, incoming_requests, rx_open, request_in_progress,
                   idle_elapsed, send_elapsed,
                   chat_up, listener_log, on_disconnect, wire, request_ids,
                   requestVars, clientVars>>

\* A request for handler h (in its channel, in progress, or about to be put
\* into the channel) whose caller waits for it, whose responder is unused
\* and for which chat.send has not returned.
Undecided(h, r) ==
    /\ owner[r] = h \/ (r = cur /\ call_sender = h /\ pc = "send")
    /\ receiver[r] = "waiting"
    /\ fates[r] = {}
    /\ ~(request_in_progress[h] = r /\ fut[h] = "ready")

\* The connection is lost (the remote closes it, the network fails): the
\* listener gets Finished and on_disconnect resolves.
ChatDisconnects(h) ==
    /\ task[h] = "running"
    /\ chat_up[h]
    /\ chat_up' = [chat_up EXCEPT ![h] = FALSE]
    /\ ListenerFinished(h)
    /\ lost_chat' = [r \in Requests |-> lost_chat[r] \/ Undecided(h, r)]
    /\ UNCHANGED <<chat_sending, wire, request_ids, response_id,
                   handlerVars,
                   nreq, owner, receiver,
                   fates, reply, clientVars>>

RECURSIVE ReceivedEvents(_)
\* How many alerts and messages the listeners of the connections in H got.
ReceivedEvents(H) ==
    IF H = {} THEN 0
    ELSE LET h == CHOOSE g \in H : TRUE
             log == listener_log[h]
         IN  Cardinality({i \in DOMAIN log : log[i] # "Finished"})
               + ReceivedEvents(H \ {h})

\* The connection calls its listener with an alert or an incoming message;
\* DropOnDisconnect's listener keeps its sender on both.
ListenerReceives(h, event) ==
    /\ chat_up[h]
    /\ ReceivedEvents(Handlers) < MaxListenerEvents
    /\ listener_log' = [listener_log EXCEPT ![h] = Append(@, event)]
    /\ UNCHANGED <<chat_up, chat_sending, wire, request_ids, response_id,
                   on_disconnect, handlerVars, requestVars, clientVars>>

\* ------------------------------------------------------------ the clock

\* The inactivity timeout decides only while a sender is alive: once the
\* channel is closed the inner future is ready first, with Ok(None).
IdleTimerArmed(h) ==
    /\ task[h] = "running"
    /\ request_in_progress[h] = 0
    /\ rx_open[h]
    /\ SenderAlive(h)

SendTimerArmed(h) == task[h] = "running" /\ fut[h] = "sending"

\* Time left until the earliest armed timer fires (TickStep if none is).
Remaining ==
    {INACTIVITY_TIMEOUT - idle_elapsed[h] : h \in {g \in Handlers : IdleTimerArmed(g)}}
      \cup {REQUEST_TIMEOUT - send_elapsed[h] : h \in {g \in Handlers : SendTimerArmed(g)}}
      \cup (IF pc = "sleep" THEN {sleep_left} ELSE {})
      \cup {TickStep}

MinRemaining == CHOOSE d \in Remaining : \A e \in Remaining : d <= e

\* Time passes, by a whole step or up to the next timer, never beyond one,
\* and not while a task is between two of its suspension points.
Advance(d) ==
    /\ d > 0
    /\ \A h \in Handlers : task[h] # "breaking"
    /\ d <= MinRemaining
    /\ idle_elapsed' = [h \in Handlers |->
                          IF IdleTimerArmed(h) THEN idle_elapsed[h] + d
                          ELSE idle_elapsed[h]]
    /\ send_elapsed' = [h \in Handlers |->
                          IF SendTimerArmed(h) THEN send_elapsed[h] + d
                          ELSE send_elapsed[h]]
    /\ sleep_left' = IF pc = "sleep" THEN sleep_left - d ELSE sleep_left
    /\ last_failure_at' = IF last_failure_at >= 0 /\ pc \in {"connect", "sleep"}
                          THEN Min(last_failure_at + d, AgeCutoff)
                          ELSE last_failure_at
    /\ UNCHANGED <<op, pc, resume_id, call_sender, failure_count,
                   connect_calls, connect_result, cur, result, service, task,
                   incoming_requests, rx_open, request_in_progress, fut,
                   fut_result, chatVars,
                   requestVars>>

\* ------------------------------------------------------- specification

ChatSendValues ==
    {OkValue(response) : response \in Responses}
      \cup {ErrValue(err) : err \in ChatSendErrors}

ClientStep ==
    \/ create_session
    \/ \E id \in ResumeIds : resume_session(id)
    \/ submit_request
    \/ drop_service
    \/ \E res \in {"Ok"} \cup ConnectErrors : ConnectChatReturns(res)
    \/ SpawnTask
    \/ ConnectFailed
    \/ SleepDone
    \/ SendToTask
    \/ SendToTaskClosed
    \/ ReceiveReply
    \/ CancelCall

HandlerStep(h) ==
    \/ TakeIncoming(h)
    \/ StartRequest(h)
    \/ RequestCancelled(h)
    \/ RequestCompletes(h)
    \/ IncomingClosed(h)
    \/ InactivityTimeout(h)
    \/ LeaveLoop(h)
    \/ DisconnectReturns(h)
    \/ Disconnected(h)

ChatStep(h) ==
    \/ \E value \in ChatSendValues : ChatSendReturns(h, value)
    \/ ChatDisconnects(h)

\* A handler task that no sender can reach any more, or that has dropped
\* its receiver.  It shares no state with the client or with another task,
\* so its steps commute with theirs; they are scheduled first, which leaves
\* one interleaving of each such run.
Orphaned(h) ==
    \/ task[h] = "running" /\ ~SenderAlive(h)
    \/ task[h] = "disconnecting"

\* The client has no suspension point between connect_chat resolving and
\* the match on its result, and that match reads no state of another task:
\* it is scheduled before anything else.
ClientRuns == pc = "connected"

OthersRun == ~ClientRuns /\ \A g \in Handlers : ~Orphaned(g)

Scheduled(h) == ~ClientRuns /\ (Orphaned(h) \/ \A g \in Handlers : ~Orphaned(g))

Next ==
    \/ (\A g \in Handlers : ~Orphaned(g)) /\ ClientStep
          /\ UNCHANGED <<connectVars, connectorVars>>
    \/ \E h \in Handlers : Scheduled(h) /\ HandlerStep(h)
          /\ UNCHANGED <<connectVars, connectorVars>>
    \/ \E h \in Handlers : Scheduled(h) /\ ChatStep(h)
          /\ UNCHANGED <<connectVars, connectorVars>>
    \/ OthersRun /\ (\E d \in {TickStep, MinRemaining} : Advance(d))
          /\ UNCHANGED <<connectVars, connectorVars>>

Spec == Init /\ [][Next]_vars

\* The registration client and its chat connections, with the events the
\* connections deliver to their listeners; no time passes.
ListenerNext ==
    \/ (\A g \in Handlers : ~Orphaned(g)) /\ ClientStep
          /\ UNCHANGED <<connectVars, connectorVars>>
    \/ \E h \in Handlers : Scheduled(h) /\ HandlerStep(h)
          /\ UNCHANGED <<connectVars, connectorVars>>
    \/ \E h \in Handlers : Scheduled(h) /\ ChatStep(h)
          /\ UNCHANGED <<connectVars, connectorVars>>
    \/ \E h \in Handlers, event \in {"ReceivedAlerts", "ReceivedMessage"} :
          /\ Scheduled(h)
          /\ ListenerReceives(h, event)
          /\ UNCHANGED <<connectVars, connectorVars>>

ListenerSpec == Init /\ [][ListenerNext]_vars

\* The runtime polls a task that is ready, a sender.send that can finish
\* does, and the client runs on to its next suspension point.  Nothing is
\* assumed of the chat connection or of the caller.
Fairness ==
    /\ \A h \in Handlers :
          WF_vars(Scheduled(h) /\ HandlerStep(h) /\ UNCHANGED <<connectVars, connectorVars>>)
    /\ WF_vars((SpawnTask \/ ConnectFailed) /\ UNCHANGED <<connectVars, connectorVars>>)
    /\ WF_vars((\A g \in Handlers : ~Orphaned(g))
                 /\ (SendToTask \/ SendToTaskClosed)
                 /\ UNCHANGED <<connectVars, connectorVars>>)

FairSpec == Spec /\ Fairness

\* The registration client, its handler tasks and their connections while
\* no time passes: no timeout of the handler, of a request or of a retry
\* delay can fire.
UntimedNext ==
    \/ (\A g \in Handlers : ~Orphaned(g)) /\ ClientStep
          /\ UNCHANGED <<connectVars, connectorVars>>
    \/ \E h \in Handlers : Scheduled(h) /\ HandlerStep(h)
          /\ UNCHANGED <<connectVars, connectorVars>>
    \/ \E h \in Handlers : Scheduled(h) /\ ChatStep(h)
          /\ UNCHANGED <<connectVars, connectorVars>>

UntimedFairSpec == Init /\ [][UntimedNext]_vars /\ Fairness

\* The retry loop of spawn_connected_chat at the moment connect_chat has
\* failed with a retryable error, for every time since the failure before
\* it (-1: none) and every number of failures so far that compute_delay can
\* be given.
ComputeDelayInit ==
    /\ ConnectStateNew
    /\ NoTaskSpawned
    /\ op = "create"
    /\ pc = "connected"
    /\ resume_id = ""
    /\ call_sender = 0
    /\ failure_count \in 0..(MaxCount + 1)
    /\ last_failure_at \in -1..AgeCutoff
    /\ sleep_left = 0
    /\ connect_calls = failure_count + 1
    /\ connect_result \in {"Timeout", "AllAttemptsFailed", "WebSocket"}
    /\ cur = 0
    /\ result = "none"

\* The loop goes on: the delay is computed and slept, and connect_chat is
\* called and fails again.
ComputeDelayNext ==
    \/ ConnectFailed /\ UNCHANGED <<connectVars, connectorVars>>
    \/ (\E d \in {TickStep, MinRemaining} : Advance(d))
          /\ UNCHANGED <<connectVars, connectorVars>>
    \/ SleepDone /\ UNCHANGED <<connectVars, connectorVars>>
    \/ (\E res \in {"Timeout", "AllAttemptsFailed", "WebSocket"} :
           ConnectChatReturns(res))
          /\ UNCHANGED <<connectVars, connectorVars>>

ComputeDelaySpec == ComputeDelayInit /\ [][ComputeDelayNext]_vars

\* ----------------------------------------------------------- ConnectState

\* ConnectionOutcomeParams::compute_delay with SUGGESTED_CONNECT_PARAMS, in
\* whole seconds.  since = -1: no failure recorded.  The factors are cut at
\* max_delay before they are multiplied, which leaves the minimum of their
\* product and max_delay as it is.
suggested_delay(since, count) ==
    IF since = -1 \/ since >= SUGGESTED_age_cutoff
    THEN 0
    ELSE LET n == Min(count, SUGGESTED_max_count)
             base == Pow(SUGGESTED_cooldown_growth_factor, n)
             grown == IF since < VeryShort
                      THEN Min(base, SUGGESTED_max_delay)
                             * Min(Pow(SUGGESTED_count_growth_factor, n),
                                   SUGGESTED_max_delay)
                      ELSE base
         IN  Min(grown, SUGGESTED_max_delay)

\* A delay policy that has learned nothing.
DelayIgnoringTransport(record, route) == 0

\* DelayBasedOnTransport(attempts_record): the delay of a route is that of
\* its transport part in the record the policy was built from.
DelayBasedOnTransport(record, route) ==
    suggested_delay(record[TransportOf(route)].age,
                    record[TransportOf(route)].count)

\* Failures counted without an upper limit.
apply_outcome_updates_uncapped(entry, failed, succeeded) ==
    IF succeeded THEN NoFailures
    ELSE IF failed = 0 THEN entry
    ELSE [count |-> entry.count + failed, age |-> 0]

\* ConnectionOutcomes::apply_outcome_updates for one transport with `failed`
\* failure outcomes and, if `succeeded`, a success after them, all as of
\* finished_at = now: a success forgets the failures, a failure counts up
\* to max_count.
apply_outcome_updates(entry, failed, succeeded) ==
    IF succeeded THEN NoFailures
    ELSE IF failed = 0 THEN entry
    ELSE [count |-> Min(entry.count + failed, SUGGESTED_max_count), age |-> 0]

\* ConnectionOutcomes::reset: every failure is forgotten.
reset(record) == [t \in Transports |-> NoFailures]

\* error.into_inner_or_else(|| WebSocketConnectError::Transport(ClientAbort))
IntoInnerOrElse(err) == IF err = "InterfaceChanged" THEN "ClientAbort" ELSE err

\* WebSocketServiceConnectError::from_websocket_error
FromWebsocketError(error) ==
    CASE error = "ClientAbort" -> "Connect(Transport(ClientAbort))"
      [] error = "ConnectionClosed" -> "Connect(WebSocketError(ConnectionClosed))"
      [] error = "RetryAfter" -> "RejectedByServer(RetryAfter)"

\* WebSocketServiceConnectError::classify
Classify(error) ==
    CASE error = "Connect(Transport(ClientAbort))" -> "Fatal"
      [] error = "Connect(WebSocketError(ConnectionClosed))" -> "Intermittent"
      [] error = "RejectedByServer(RetryAfter)" -> "RetryAt"

\* The closure breaking the race on an Intermittent error too.
ClassifyErrorBreaksOnIntermittent(err) ==
    LET error == FromWebsocketError(IntoInnerOrElse(err)) IN
    [flow |-> "Break", error |-> error]

\* The closure going on after a Fatal error.
ClassifyErrorContinuesOnFatal(err) ==
    LET error == FromWebsocketError(IntoInnerOrElse(err)) IN
    CASE Classify(error) \in {"Intermittent", "Fatal"} ->
           [flow |-> "Continue", error |-> error]
      [] Classify(error) = "RetryAt" -> [flow |-> "Break", error |-> error]

\* The closure going on after a RetryAt error.
ClassifyErrorContinuesOnRetryAt(err) ==
    LET error == FromWebsocketError(IntoInnerOrElse(err)) IN
    CASE Classify(error) \in {"Intermittent", "RetryAt"} ->
           [flow |-> "Continue", error |-> error]
      [] Classify(error) = "Fatal" -> [flow |-> "Break", error |-> error]

\* The closure connect_ws gives to route::connect: Continue(()), or
\* Break(error) with the error it carries.
ClassifyError(err) ==
    LET error == FromWebsocketError(IntoInnerOrElse(err)) IN
    CASE Classify(error) = "Intermittent" -> [flow |-> "Continue", error |-> error]
      [] Classify(error) \in {"Fatal", "RetryAt"} ->
           [flow |-> "Break", error |-> error]

\* The delay of the i-th route of caller c's race, and the order in which
\* the race starts its routes: by scheduled time, ties in list order.
Delay(c, i) == DelayBasedOnTransport(snapshot[c], routes[c][i])

StartsBefore(c, i, j) ==
    \/ Delay(c, i) < Delay(c, j)
    \/ Delay(c, i) = Delay(c, j) /\ i < j

RouteIsDue(c, i) ==
    /\ attempts[c][i] = "scheduled"
    /\ ws_elapsed[c] >= Delay(c, i)
    /\ \A j \in DOMAIN attempts[c] :
          StartsBefore(c, j, i) => attempts[c][j] # "scheduled"

\* A task calls connect_ws with the routes `rs`; it waits for the read
\* lock.  The tasks are alike: the second one stands for a task that calls
\* while another call is running.
connect_ws(c, rs) ==
    /\ ws_pc[c] = "idle"
    /\ c = "c2" => ws_pc["c1"] # "idle"
    /\ ncalls < MaxCalls
    /\ ncalls' = ncalls + 1
    /\ ws_pc' = [ws_pc EXCEPT ![c] = "read"]
    /\ routes' = [routes EXCEPT ![c] = rs]
    /\ ws_result' = [ws_result EXCEPT ![c] = NoResult]
    /\ UNCHANGED <<attempts_record, lock, snapshot, attempts, ws_elapsed,
                   net_pc, nchanges>>

\* this.read().await resolves: no writer holds the lock.
ReadLocked(c) ==
    /\ ws_pc[c] = "read"
    /\ lock.writer = "none"
    /\ lock' = [lock EXCEPT !.readers = @ \cup {c}]
    /\ ws_pc' = [ws_pc EXCEPT ![c] = "snapshot"]
    /\ UNCHANGED <<attempts_record, routes, snapshot, attempts, ws_elapsed,
                   ws_result, net_pc, ncalls, nchanges>>

\* The read guard kept for the whole race.
TakeSnapshotKeepingGuard(c) ==
    /\ ws_pc[c] = "snapshot"
    /\ snapshot' = [snapshot EXCEPT ![c] = attempts_record]
    /\ attempts' = [attempts EXCEPT
                      ![c] = [i \in 1..Len(routes[c]) |-> "scheduled"]]
    /\ ws_elapsed' = [ws_elapsed EXCEPT ![c] = 0]
    /\ ws_pc' = [ws_pc EXCEPT ![c] = "racing"]
    /\ UNCHANGED <<attempts_record, lock, routes, ws_result, net_pc, ncalls,
                   nchanges>>

\* .snapshot() under the read guard, which is dropped with the statement;
\* the race is set up and `start` is taken.
TakeSnapshot(c) ==
    /\ ws_pc[c] = "snapshot"
    /\ snapshot' = [snapshot EXCEPT ![c] = attempts_record]
    /\ lock' = [lock EXCEPT !.readers = @ \ {c}]
    /\ attempts' = [attempts EXCEPT
                      ![c] = [i \in 1..Len(routes[c]) |-> "scheduled"]]
    /\ ws_elapsed' = [ws_elapsed EXCEPT ![c] = 0]
    /\ ws_pc' = [ws_pc EXCEPT ![c] = "racing"]
    /\ UNCHANGED <<attempts_record, routes, ws_result, net_pc, ncalls,
                   nchanges>>

\* The race returns (result, updates) within connect_timeout: what is in
\* flight is cancelled, and the call goes on to the write lock.  `done` is
\* the state of the attempts with the outcome that ended the race.
RaceConcludes(c, done, outcome) ==
    /\ attempts' = [attempts EXCEPT
                      ![c] = [i \in DOMAIN done |->
                                IF done[i] \in {"failed", "connected"}
                                THEN done[i] ELSE "cancelled"]]
    /\ ws_result' = [ws_result EXCEPT ![c] = outcome]
    /\ ws_pc' = [ws_pc EXCEPT ![c] = "write"]
    /\ snapshot' = [snapshot EXCEPT ![c] = NewRecord]
    /\ ws_elapsed' = [ws_elapsed EXCEPT ![c] = 0]
    /\ UNCHANGED <<attempts_record, lock, routes, net_pc, ncalls, nchanges>>

\* A race without routes that reports its routes as failed.
NoRoutesAllAttemptsFailed(c) ==
    /\ ws_pc[c] = "racing"
    /\ routes[c] = <<>>
    /\ RaceConcludes(c, attempts[c], [tag |-> "AllAttemptsFailed"])

\* The race has no route to try.
NoRoutes(c) ==
    /\ ws_pc[c] = "racing"
    /\ routes[c] = <<>>
    /\ RaceConcludes(c, attempts[c], [tag |-> "NoResolvedRoutes"])

\* The race holds an error a connector returned and has not yet asked the
\* closure about it; it does so before it polls anything else.
ErrorAtHand(c) ==
    \E i \in DOMAIN attempts[c] :
       attempts[c][i] \in AttemptErrors \cup TransportErrors

\* The scheduled time of a route has come: its attempt is launched.
StartRoute(c, i) ==
    /\ ws_pc[c] = "racing"
    /\ ~ErrorAtHand(c)
    /\ RouteIsDue(c, i)
    /\ attempts' = [attempts EXCEPT ![c][i] = "running"]
    /\ UNCHANGED <<attempts_record, lock, ws_pc, routes, snapshot,
                   ws_elapsed, ws_result, net_pc, ncalls, nchanges>>

\* A race that waits for the routes still in flight before it returns the
\* connection.
RouteConnectsWaitsForOthers(c, i) ==
    /\ ws_pc[c] = "racing"
    /\ ~ErrorAtHand(c)
    /\ attempts[c][i] = "running"
    /\ IF \E j \in DOMAIN attempts[c] : j # i /\ attempts[c][j] = "running"
       THEN /\ attempts' = [attempts EXCEPT ![c][i] = "connected"]
            /\ UNCHANGED <<attempts_record, lock, ws_pc, routes, snapshot,
                           ws_elapsed, ws_result, net_pc, ncalls, nchanges>>
       ELSE RaceConcludes(c, [attempts[c] EXCEPT ![i] = "connected"],
                          [tag |-> "Ok", connection |-> routes[c][i],
                           description |-> Describe(routes[c][i])])

\* The connector returns Ok for a route: the race ends with the connection
\* and the description saved with that route.
RouteConnects(c, i) ==
    /\ ws_pc[c] = "racing"
    /\ ~ErrorAtHand(c)
    /\ attempts[c][i] = "running"
    /\ RaceConcludes(c, [attempts[c] EXCEPT ![i] = "connected"],
                     [tag |-> "Ok", connection |-> routes[c][i],
                      description |-> Describe(routes[c][i])])

\* The connector returns an error for a route.
ConnectorFails(c, i, err) ==
    /\ ws_pc[c] = "racing"
    /\ ~ErrorAtHand(c)
    /\ attempts[c][i] = "running"
    /\ attempts' = [attempts EXCEPT ![c][i] = err]
    /\ UNCHANGED <<attempts_record, lock, ws_pc, routes, snapshot,
                   ws_elapsed, ws_result, net_pc, ncalls, nchanges>>

\* The race gives the error of a route to the closure, which decides
\* whether the race goes on: Continue records a failure for the route, and
\* ends the race with AllAttemptsFailed if it was the last one; Break ends
\* it with FatalConnect.
RouteFails(c, i) ==
    /\ ws_pc[c] = "racing"
    /\ attempts[c][i] \in AttemptErrors
    /\ LET decision == ClassifyError(attempts[c][i])
           failed == [attempts[c] EXCEPT ![i] = "failed"]
       IN  IF decision.flow = "Break"
           THEN RaceConcludes(c, [attempts[c] EXCEPT ![i] = "aborted"],
                              [tag |-> "FatalConnect",
                               error |-> decision.error])
           ELSE IF \A j \in DOMAIN failed : failed[j] = "failed"
           THEN RaceConcludes(c, failed, [tag |-> "AllAttemptsFailed"])
           ELSE /\ attempts' = [attempts EXCEPT ![c] = failed]
                /\ UNCHANGED <<attempts_record, lock, ws_pc, routes, snapshot,
                               ws_elapsed, ws_result, net_pc, ncalls,
                               nchanges>>

\* The locals of a call are dropped when it returns.
DropRace(c) ==
    /\ ws_pc' = [ws_pc EXCEPT ![c] = "idle"]
    /\ routes' = [routes EXCEPT ![c] = <<>>]
    /\ snapshot' = [snapshot EXCEPT ![c] = NewRecord]
    /\ attempts' = [attempts EXCEPT ![c] = <<>>]
    /\ ws_elapsed' = [ws_elapsed EXCEPT ![c] = 0]

\* A timeout that is handled like a result of the race: the call goes on to
\* the write lock with the outcomes gathered so far.
TimeoutElapsedThroughWrite(c) ==
    /\ ws_pc[c] = "racing"
    /\ routes[c] # <<>>
    /\ ~ErrorAtHand(c)
    /\ ws_elapsed[c] >= CONNECT_TIMEOUT
    /\ ws_result' = [ws_result EXCEPT
                       ![c] = [tag |-> "Timeout",
                               attempt_duration |-> CONNECT_TIMEOUT]]
    /\ ws_pc' = [ws_pc EXCEPT ![c] = "write"]
    /\ UNCHANGED <<attempts_record, lock, routes, snapshot, attempts,
                   ws_elapsed, net_pc, ncalls, nchanges>>

\* The timeout elapsing whatever time has passed.
TimeoutElapsedAtOnce(c) ==
    /\ ws_pc[c] = "racing"
    /\ routes[c] # <<>>
    /\ ~ErrorAtHand(c)
    /\ ws_result' = [ws_result EXCEPT
                       ![c] = [tag |-> "Timeout",
                               attempt_duration |-> CONNECT_TIMEOUT]]
    /\ DropRace(c)
    /\ UNCHANGED <<attempts_record, lock, net_pc, ncalls, nchanges>>

\* tokio::time::timeout(connect_timeout, connect) elapses before the race
\* is ready: connect_ws returns Timeout at once, through the `?`.
TimeoutElapsed(c) ==
    /\ ws_pc[c] = "racing"
    /\ routes[c] # <<>>
    /\ ~ErrorAtHand(c)
    /\ ws_elapsed[c] >= CONNECT_TIMEOUT
    /\ ws_result' = [ws_result EXCEPT
                       ![c] = [tag |-> "Timeout",
                               attempt_duration |-> CONNECT_TIMEOUT]]
    /\ DropRace(c)
    /\ UNCHANGED <<attempts_record, lock, net_pc, ncalls, nchanges>>

\* this.write().await resolves: nobody holds the lock.
WriteLocked(c) ==
    /\ ws_pc[c] = "write"
    /\ lock = Unlocked
    /\ lock' = [lock EXCEPT !.writer = c]
    /\ ws_pc' = [ws_pc EXCEPT ![c] = "apply"]
    /\ UNCHANGED <<attempts_record, routes, snapshot, attempts, ws_elapsed,
                   ws_result, net_pc, ncalls, nchanges>>

\* The outcomes of the race of caller c for transport t.
Failed(c, t) ==
    Cardinality({i \in DOMAIN attempts[c] :
                   attempts[c][i] = "failed" /\ TransportOf(routes[c][i]) = t})

Succeeded(c, t) ==
    \E i \in DOMAIN attempts[c] :
        attempts[c][i] = "connected" /\ TransportOf(routes[c][i]) = t

\* RouteInfo::fake() returned in place of the description of the race.
ConnectWsReturnFakeInfo(outcome) ==
    IF outcome.tag = "Ok"
    THEN [tag |-> "Ok", connection |-> outcome.connection,
          route_info |-> [unresolved |-> "fake"]]
    ELSE outcome

\* What connect_ws returns for the result of the race: `result?`, and for
\* Ok the connection with a RouteInfo of the description.
ConnectWsReturn(outcome) ==
    IF outcome.tag = "Ok"
    THEN [tag |-> "Ok", connection |-> outcome.connection,
          route_info |-> [unresolved |-> outcome.description]]
    ELSE outcome

\* `result?` placed before the update: an error of the race returns without
\* the registry being written.
ApplyUpdatesUnlessError(c) ==
    /\ ws_pc[c] = "apply"
    /\ attempts_record' =
         IF ws_result[c].tag = "Ok"
         THEN [t \in Transports |->
                 apply_outcome_updates(attempts_record[t], Failed(c, t),
                                       Succeeded(c, t))]
         ELSE attempts_record
    /\ lock' = Unlocked
    /\ ws_result' = [ws_result EXCEPT ![c] = ConnectWsReturn(@)]
    /\ DropRace(c)
    /\ UNCHANGED <<net_pc, ncalls, nchanges>>

\* attempts_record.apply_outcome_updates(updates.outcomes, finished_at) under
\* the write guard, which is dropped with the statement; connect_ws then
\* returns.
ApplyUpdates(c) ==
    /\ ws_pc[c] = "apply"
    /\ attempts_record' =
         [t \in Transports |->
            apply_outcome_updates(attempts_record[t], Failed(c, t),
                                  Succeeded(c, t))]
    /\ lock' = Unlocked
    /\ ws_result' = [ws_result EXCEPT ![c] = ConnectWsReturn(@)]
    /\ DropRace(c)
    /\ UNCHANGED <<net_pc, ncalls, nchanges>>

\* A task takes the write lock to call network_changed.
NetworkChangeLocked ==
    /\ net_pc = "idle"
    /\ nchanges < MaxNetworkChanges
    /\ lock = Unlocked
    /\ lock' = [lock EXCEPT !.writer = "net"]
    /\ net_pc' = "reset"
    /\ nchanges' = nchanges + 1
    /\ UNCHANGED <<attempts_record, ws_pc, routes, snapshot, attempts,
                   ws_elapsed, ws_result, ncalls>>

\* A network change that leaves the registry as it is.
network_changed_without_reset ==
    /\ net_pc = "reset"
    /\ lock' = Unlocked
    /\ net_pc' = "idle"
    /\ UNCHANGED <<attempts_record, ws_pc, routes, snapshot, attempts,
                   ws_elapsed, ws_result, ncalls, nchanges>>

\* ConnectState::network_changed, and the write guard is dropped.
network_changed ==
    /\ net_pc = "reset"
    /\ attempts_record' = reset(attempts_record)
    /\ lock' = Unlocked
    /\ net_pc' = "idle"
    /\ UNCHANGED <<ws_pc, routes, snapshot, attempts, ws_elapsed, ws_result,
                   ncalls, nchanges>>

\* The timers of the race of caller c: what is left until connect_timeout
\* and until the scheduled start of each route not yet started.
RaceTimers(c) ==
    IF ws_pc[c] # "racing" THEN {}
    ELSE {CONNECT_TIMEOUT - ws_elapsed[c]}
           \cup {Delay(c, i) - ws_elapsed[c] :
                   i \in {j \in DOMAIN attempts[c] :
                            attempts[c][j] = "scheduled"}}

ConnectTimers == UNION {RaceTimers(c) : c \in Callers}

\* The clock moves on by d seconds: every task is suspended on a timer, on
\* its connectors or not running, and no timer is overdue.
ConnectAdvance(d) ==
    /\ d > 0
    /\ lock = Unlocked
    /\ net_pc = "idle"
    /\ \A c \in Callers :
          /\ ws_pc[c] \in {"idle", "racing"}
          /\ ws_pc[c] = "racing" => routes[c] # <<>>
          /\ ~ErrorAtHand(c)
    /\ \A r \in ConnectTimers : d <= r
    /\ ws_elapsed' = [c \in Callers |->
                        IF ws_pc[c] = "racing" THEN ws_elapsed[c] + d
                        ELSE ws_elapsed[c]]
    /\ attempts_record' =
         [t \in Transports |->
            IF attempts_record[t].age = -1 THEN attempts_record[t]
            ELSE [attempts_record[t] EXCEPT
                    !.age = Min(@ + d, SUGGESTED_age_cutoff)]]
    /\ UNCHANGED <<lock, ws_pc, routes, snapshot, attempts, ws_result,
                   net_pc, ncalls, nchanges>>

\* The steps the clock may take: to the next timer of a race; between the
\* calls by TickStep from the moment a failure was recorded, and by
\* age_cutoff, after which every failure is stale.
ClockSteps ==
    IF ConnectTimers # {} THEN ConnectTimers
    ELSE IF \E t \in Transports : attempts_record[t].age = 0
    THEN {TickStep, SUGGESTED_age_cutoff}
    ELSE {SUGGESTED_age_cutoff}

\* One task at a time calls connect_ws, another calls network_changed, and
\* the clock runs.
ConnectNext ==
    \/ \E rs \in RouteLists :
          connect_ws("c1", rs) /\ UNCHANGED <<registrationVars, connectorVars>>
    \/ ReadLocked("c1") /\ UNCHANGED <<registrationVars, connectorVars>>
    \/ TakeSnapshot("c1") /\ UNCHANGED <<registrationVars, connectorVars>>
    \/ NoRoutes("c1") /\ UNCHANGED <<registrationVars, connectorVars>>
    \/ \E i \in DOMAIN attempts["c1"] :
          StartRoute("c1", i) /\ UNCHANGED <<registrationVars, connectorVars>>
    \/ \E i \in DOMAIN attempts["c1"] :
          RouteConnects("c1", i) /\ UNCHANGED <<registrationVars, connectorVars>>
    \/ \E i \in DOMAIN attempts["c1"] : \E err \in AttemptErrors :
          ConnectorFails("c1", i, err) /\ UNCHANGED <<registrationVars, connectorVars>>
    \/ \E i \in DOMAIN attempts["c1"] :
          RouteFails("c1", i) /\ UNCHANGED <<registrationVars, connectorVars>>
    \/ TimeoutElapsed("c1") /\ UNCHANGED <<registrationVars, connectorVars>>
    \/ WriteLocked("c1") /\ UNCHANGED <<registrationVars, connectorVars>>
    \/ ApplyUpdates("c1") /\ UNCHANGED <<registrationVars, connectorVars>>
    \/ NetworkChangeLocked /\ UNCHANGED <<registrationVars, connectorVars>>
    \/ network_changed /\ UNCHANGED <<registrationVars, connectorVars>>
    \/ \E d \in ClockSteps : ConnectAdvance(d) /\ UNCHANGED <<registrationVars, connectorVars>>

ConnectSpec == Init /\ [][ConnectNext]_vars

\* Two tasks call connect_ws on one ConnectState while a third calls
\* network_changed.  The clock stands still here: who gets the lock does not
\* depend on it, and a call that times out takes no lock any more.
ConcurrentNext ==
    \/ \E c \in Callers : \E rs \in RouteLists :
          connect_ws(c, rs) /\ UNCHANGED <<registrationVars, connectorVars>>
    \/ \E c \in Callers : ReadLocked(c) /\ UNCHANGED <<registrationVars, connectorVars>>
    \/ \E c \in Callers : TakeSnapshot(c) /\ UNCHANGED <<registrationVars, connectorVars>>
    \/ \E c \in Callers : NoRoutes(c) /\ UNCHANGED <<registrationVars, connectorVars>>
    \/ \E c \in Callers : \E i \in DOMAIN attempts[c] :
          StartRoute(c, i) /\ UNCHANGED <<registrationVars, connectorVars>>
    \/ \E c \in Callers : \E i \in DOMAIN attempts[c] :
          RouteConnects(c, i) /\ UNCHANGED <<registrationVars, connectorVars>>
    \/ \E c \in Callers : \E i \in DOMAIN attempts[c] :
          \E err \in AttemptErrors :
             ConnectorFails(c, i, err) /\ UNCHANGED <<registrationVars, connectorVars>>
    \/ \E c \in Callers : \E i \in DOMAIN attempts[c] :
          RouteFails(c, i) /\ UNCHANGED <<registrationVars, connectorVars>>
    \/ \E c \in Callers : WriteLocked(c) /\ UNCHANGED <<registrationVars, connectorVars>>
    \/ \E c \in Callers : ApplyUpdates(c) /\ UNCHANGED <<registrationVars, connectorVars>>
    \/ NetworkChangeLocked /\ UNCHANGED <<registrationVars, connectorVars>>
    \/ network_changed /\ UNCHANGED <<registrationVars, connectorVars>>

ConcurrentSpec == Init /\ [][ConcurrentNext]_vars

\* A task that can go on does: a lock that is free is given to a task that
\* waits for it, and a task that holds a guard runs until it drops it.
ConcurrentFairness ==
    /\ \A c \in Callers :
          /\ WF_vars(ReadLocked(c) /\ UNCHANGED <<registrationVars, connectorVars>>)
          /\ WF_vars(TakeSnapshot(c) /\ UNCHANGED <<registrationVars, connectorVars>>)
          /\ WF_vars(WriteLocked(c) /\ UNCHANGED <<registrationVars, connectorVars>>)
          /\ WF_vars(ApplyUpdates(c) /\ UNCHANGED <<registrationVars, connectorVars>>)
    /\ WF_vars(network_changed /\ UNCHANGED <<registrationVars, connectorVars>>)

ConcurrentFairSpec == ConcurrentSpec /\ ConcurrentFairness

\* ------------------------------------------------------ preconnect_and_save

\* A task calls preconnect_and_save with the routes `rs`; it waits for the
\* read lock.
preconnect_and_save(c, rs) ==
    /\ ws_pc[c] = "idle"
    /\ ncalls < MaxCalls
    /\ ncalls' = ncalls + 1
    /\ ws_pc' = [ws_pc EXCEPT ![c] = "read"]
    /\ routes' = [routes EXCEPT ![c] = rs]
    /\ ws_result' = [ws_result EXCEPT ![c] = NoResult]
    /\ ws_kind' = [ws_kind EXCEPT ![c] = "preconnect_and_save"]
    /\ UNCHANGED <<attempts_record, lock, snapshot, attempts, ws_elapsed,
                   net_pc, nchanges, preconnected,
                   preconnected_age, tls>>

\* The connector of preconnect_and_save returns an error for a route.
TransportConnectorFails(c, i, err) ==
    /\ ws_kind[c] = "preconnect_and_save"
    /\ ws_pc[c] = "racing"
    /\ ~ErrorAtHand(c)
    /\ attempts[c][i] = "running"
    /\ attempts' = [attempts EXCEPT ![c][i] = err]
    /\ UNCHANGED <<attempts_record, lock, ws_pc, routes, snapshot,
                   ws_elapsed, ws_result, net_pc, ncalls, nchanges>>

\* A closure for which a change of the network interface is one more
\* transport error.
PreconnectClassifyErrorAllIntermittent(err) ==
    [flow |-> "Continue", error |-> err]

\* The closure preconnect_and_save gives to route::connect.
PreconnectClassifyError(err) ==
    IF err = "InterfaceChanged"
    THEN [flow |-> "Break", error |-> "ClientAbort"]
    ELSE [flow |-> "Continue", error |-> err]

\* The race of preconnect_and_save gives the error of a route to the
\* closure.
PreconnectRouteFails(c, i) ==
    /\ ws_kind[c] = "preconnect_and_save"
    /\ ws_pc[c] = "racing"
    /\ attempts[c][i] \in TransportErrors
    /\ LET decision == PreconnectClassifyError(attempts[c][i])
           failed == [attempts[c] EXCEPT ![i] = "failed"]
       IN  IF decision.flow = "Break"
           THEN RaceConcludes(c, [attempts[c] EXCEPT ![i] = "aborted"],
                              [tag |-> "FatalConnect",
                               error |-> decision.error])
           ELSE IF \A j \in DOMAIN failed : failed[j] = "failed"
           THEN RaceConcludes(c, failed, [tag |-> "AllAttemptsFailed"])
           ELSE /\ attempts' = [attempts EXCEPT ![c] = failed]
                /\ UNCHANGED <<attempts_record, lock, ws_pc, routes, snapshot,
                               ws_elapsed, ws_result, net_pc, ncalls,
                               nchanges>>

\* A save keyed by the first route of the race, whichever one connected.
SaveResultsForFirstRoute(c) ==
    /\ ws_kind[c] = "preconnect_and_save"
    /\ ws_pc[c] = "apply"
    /\ attempts_record' =
         [t \in Transports |->
            apply_outcome_updates(attempts_record[t], Failed(c, t),
                                  Succeeded(c, t))]
    /\ preconnected' = IF ws_result[c].tag = "Ok"
                       THEN routes[c][1]
                       ELSE preconnected
    /\ preconnected_age' = IF ws_result[c].tag = "Ok" THEN 0
                           ELSE preconnected_age
    /\ ws_result' = [ws_result EXCEPT
                       ![c] = IF @.tag = "Ok" THEN [tag |-> "Ok"] ELSE @]
    /\ lock' = Unlocked
    /\ DropRace(c)
    /\ UNCHANGED <<net_pc, ncalls, nchanges, ws_kind, tls>>

\* The block under the write guard at the end of preconnect_and_save: the
\* updates are applied, `result?` leaves with the error of the race, and
\* the stream of a race that succeeded is saved for its route.
SaveResults(c) ==
    /\ ws_kind[c] = "preconnect_and_save"
    /\ ws_pc[c] = "apply"
    /\ attempts_record' =
         [t \in Transports |->
            apply_outcome_updates(attempts_record[t], Failed(c, t),
                                  Succeeded(c, t))]
    /\ preconnected' = IF ws_result[c].tag = "Ok"
                       THEN ws_result[c].connection
                       ELSE preconnected
    /\ preconnected_age' = IF ws_result[c].tag = "Ok" THEN 0
                           ELSE preconnected_age
    /\ ws_result' = [ws_result EXCEPT
                       ![c] = IF @.tag = "Ok" THEN [tag |-> "Ok"] ELSE @]
    /\ lock' = Unlocked
    /\ DropRace(c)
    /\ UNCHANGED <<net_pc, ncalls, nchanges, ws_kind, tls>>

\* One task at a time calls connect_ws or preconnect_and_save on a
\* ConnectState, and the clock runs.
PreconnectNext ==
    \/ \E rs \in RouteLists :
          /\ connect_ws("c1", rs)
          /\ ws_kind' = [ws_kind EXCEPT !["c1"] = "connect_ws"]
          /\ UNCHANGED <<registrationVars, preconnected,
                   preconnected_age, tls>>
    \/ \E rs \in RouteLists :
          preconnect_and_save("c1", rs) /\ UNCHANGED registrationVars
    \/ ReadLocked("c1") /\ UNCHANGED <<registrationVars, connectorVars>>
    \/ TakeSnapshot("c1") /\ UNCHANGED <<registrationVars, connectorVars>>
    \/ NoRoutes("c1") /\ UNCHANGED <<registrationVars, connectorVars>>
    \/ \E i \in DOMAIN attempts["c1"] :
          StartRoute("c1", i) /\ UNCHANGED <<registrationVars, connectorVars>>
    \/ \E i \in DOMAIN attempts["c1"] :
          RouteConnects("c1", i)
          /\ UNCHANGED <<registrationVars, connectorVars>>
    \/ \E i \in DOMAIN attempts["c1"] : \E err \in AttemptErrors :
          /\ ws_kind["c1"] = "connect_ws"
          /\ ConnectorFails("c1", i, err)
          /\ UNCHANGED <<registrationVars, connectorVars>>
    \/ \E i \in DOMAIN attempts["c1"] : \E err \in TransportErrors :
          TransportConnectorFails("c1", i, err)
          /\ UNCHANGED <<registrationVars, connectorVars>>
    \/ \E i \in DOMAIN attempts["c1"] :
          /\ ws_kind["c1"] = "connect_ws"
          /\ RouteFails("c1", i)
          /\ UNCHANGED <<registrationVars, connectorVars>>
    \/ \E i \in DOMAIN attempts["c1"] :
          PreconnectRouteFails("c1", i)
          /\ UNCHANGED <<registrationVars, connectorVars>>
    \/ TimeoutElapsed("c1") /\ UNCHANGED <<registrationVars, connectorVars>>
    \/ WriteLocked("c1") /\ UNCHANGED <<registrationVars, connectorVars>>
    \/ /\ ws_kind["c1"] = "connect_ws"
       /\ ApplyUpdates("c1")
       /\ UNCHANGED <<registrationVars, connectorVars>>
    \/ SaveResults("c1") /\ UNCHANGED registrationVars
    \/ \E d \in ClockSteps :
          ConnectAdvance(d) /\ UNCHANGED <<registrationVars, connectorVars>>

PreconnectSpec == Init /\ [][PreconnectNext]_vars

\* ------------------------------------------- the preconnecting connector

\* The race is set up; no route has asked the connector for a stream.
PreconnectingTakeSnapshot(c) ==
    /\ TakeSnapshot(c)
    /\ tls' = [tls EXCEPT ![c] = [i \in 1..Len(routes[c]) |-> "none"]]
    /\ UNCHANGED <<ws_kind, preconnected, preconnected_age>>

\* A connector that hands out the saved stream and keeps it.
TakePreconnectedKeepingIt(route) ==
    UNCHANGED <<preconnected, preconnected_age>>

\* The saved stream leaves the connector: the entry is removed.
TakePreconnected(route) ==
    /\ preconnected' = "none"
    /\ preconnected_age' = 0

\* PreconnectingConnector::connect_over for a route with should = true, as
\* preconnect_and_save marks its routes: the saved stream if it is the one of
\* this route and younger than the lifetime, which removes it; else the
\* inner connector, an expired stream of this route being dropped.
ConnectOver(c, i) ==
    LET route == routes[c][i] IN
    IF preconnected = route /\ preconnected_age < PRECONNECT_LIFETIME
    THEN /\ tls' = [tls EXCEPT ![c][i] = "cached"]
         /\ TakePreconnected(route)
    ELSE /\ tls' = [tls EXCEPT ![c][i] = "delegated"]
         /\ IF preconnected = route
            THEN /\ preconnected' = "none"
                 /\ preconnected_age' = 0
            ELSE UNCHANGED <<preconnected, preconnected_age>>

\* A route is started.  The routes of connect_ws are not marked and go to
\* the inner connector.
PreconnectingStartRoute(c, i) ==
    /\ StartRoute(c, i)
    /\ IF ws_kind[c] = "preconnect_and_save"
       THEN ConnectOver(c, i)
       ELSE /\ tls' = [tls EXCEPT ![c][i] = "delegated"]
            /\ UNCHANGED <<preconnected, preconnected_age>>
    /\ UNCHANGED ws_kind

\* The clock moves on, and the saved stream ages with it.
PreconnectingAdvance(d) ==
    /\ ConnectAdvance(d)
    /\ preconnected_age' =
         IF preconnected = "none" THEN preconnected_age
         ELSE Min(preconnected_age + d, PRECONNECT_LIFETIME)
    /\ UNCHANGED <<ws_kind, preconnected, tls>>

\* The steps of the clock, with those by which a saved stream ages between
\* the calls.
PreconnectingClockSteps ==
    IF ConnectTimers = {} /\ preconnected # "none"
          /\ preconnected_age < PRECONNECT_LIFETIME
    THEN ClockSteps \cup {TickStep}
    ELSE ClockSteps

\* preconnect_and_save and connect_ws on a ConnectState whose connector
\* factory is a PreconnectingFactory; one task at a time, and the clock runs.
PreconnectingNext ==
    \/ \E rs \in RouteLists :
          /\ connect_ws("c1", rs)
          /\ ws_kind' = [ws_kind EXCEPT !["c1"] = "connect_ws"]
          /\ UNCHANGED <<registrationVars, preconnected,
                         preconnected_age, tls>>
    \/ \E rs \in RouteLists :
          preconnect_and_save("c1", rs) /\ UNCHANGED registrationVars
    \/ ReadLocked("c1") /\ UNCHANGED <<registrationVars, connectorVars>>
    \/ PreconnectingTakeSnapshot("c1") /\ UNCHANGED registrationVars
    \/ NoRoutes("c1") /\ UNCHANGED <<registrationVars, connectorVars>>
    \/ \E i \in DOMAIN attempts["c1"] :
          PreconnectingStartRoute("c1", i) /\ UNCHANGED registrationVars
    \/ \E i \in DOMAIN attempts["c1"] :
          RouteConnects("c1", i)
          /\ UNCHANGED <<registrationVars, connectorVars>>
    \/ \E i \in DOMAIN attempts["c1"] : \E err \in AttemptErrors :
          /\ ws_kind["c1"] = "connect_ws"
          /\ ConnectorFails("c1", i, err)
          /\ UNCHANGED <<registrationVars, connectorVars>>
    \/ \E i \in DOMAIN attempts["c1"] : \E err \in TransportErrors :
          /\ tls["c1"][i] = "delegated"
          /\ TransportConnectorFails("c1", i, err)
          /\ UNCHANGED <<registrationVars, connectorVars>>
    \/ \E i \in DOMAIN attempts["c1"] :
          /\ ws_kind["c1"] = "connect_ws"
          /\ RouteFails("c1", i)
          /\ UNCHANGED <<registrationVars, connectorVars>>
    \/ \E i \in DOMAIN attempts["c1"] :
          PreconnectRouteFails("c1", i)
          /\ UNCHANGED <<registrationVars, connectorVars>>
    \/ TimeoutElapsed("c1") /\ UNCHANGED <<registrationVars, connectorVars>>
    \/ WriteLocked("c1") /\ UNCHANGED <<registrationVars, connectorVars>>
    \/ /\ ws_kind["c1"] = "connect_ws"
       /\ ApplyUpdates("c1")
       /\ UNCHANGED <<registrationVars, connectorVars>>
    \/ SaveResults("c1") /\ UNCHANGED registrationVars
    \/ \E d \in PreconnectingClockSteps :
          PreconnectingAdvance(d) /\ UNCHANGED registrationVars

PreconnectingSpec == Init /\ [][PreconnectingNext]_vars

\* ------------------------------------------------- resolving the routes

\* What the chat connection makes of the error of connect_ws: a race that
\* had no resolved route counts as one whose attempts all failed.
ChatConnectError(outcome) ==
    CASE outcome.tag = "Timeout" -> "Timeout"
      [] outcome.tag \in {"NoResolvedRoutes", "AllAttemptsFailed"} ->
           "AllAttemptsFailed"
      [] OTHER -> outcome.tag

\* The host names of the routes of c are being looked up.
Resolving(c) ==
    /\ ws_pc[c] = "racing"
    /\ routes[c] # <<>>
    /\ \A i \in DOMAIN attempts[c] : attempts[c][i] = "resolving"

\* A resolver whose strategy has no timeout of its own.
LookupDeadlineNever == CONNECT_TIMEOUT + 1

\* The resolver gives a lookup up when the timeout of its strategy is over.
LookupDeadline == DNS_STRATEGY_TIMEOUT

\* The race starts by resolving its routes: the lookups of all of them are
\* started together.
ResolvingTakeSnapshot(c) ==
    /\ ws_pc[c] = "snapshot"
    /\ snapshot' = [snapshot EXCEPT ![c] = attempts_record]
    /\ lock' = [lock EXCEPT !.readers = @ \ {c}]
    /\ attempts' = [attempts EXCEPT
                      ![c] = [i \in 1..Len(routes[c]) |-> "resolving"]]
    /\ ws_elapsed' = [ws_elapsed EXCEPT ![c] = 0]
    /\ ws_pc' = [ws_pc EXCEPT ![c] = "racing"]
    /\ UNCHANGED <<attempts_record, routes, ws_result, net_pc, ncalls,
                   nchanges>>

\* The lookups answer within the strategy timeout: the routes are resolved
\* and the race schedules them.
LookupResolves(c) ==
    /\ Resolving(c)
    /\ ws_elapsed[c] < LookupDeadline
    /\ attempts' = [attempts EXCEPT
                      ![c] = [i \in DOMAIN attempts[c] |-> "scheduled"]]
    /\ UNCHANGED <<attempts_record, lock, ws_pc, routes, snapshot,
                   ws_elapsed, ws_result, net_pc, ncalls, nchanges>>

\* No route is resolved (`how` tells why): the race has nothing to attempt
\* and ends with NoResolvedRoutes; no outcome is recorded for a route.
NothingResolved(c, how) ==
    /\ attempts' = [attempts EXCEPT
                      ![c] = [i \in DOMAIN attempts[c] |-> how]]
    /\ ws_result' = [ws_result EXCEPT ![c] = [tag |-> "NoResolvedRoutes"]]
    /\ ws_pc' = [ws_pc EXCEPT ![c] = "write"]
    /\ snapshot' = [snapshot EXCEPT ![c] = NewRecord]
    /\ ws_elapsed' = [ws_elapsed EXCEPT ![c] = 0]
    /\ UNCHANGED <<attempts_record, lock, routes, net_pc, ncalls, nchanges>>

\* The lookups return LookupFailed.
LookupFails(c) ==
    /\ Resolving(c)
    /\ ws_elapsed[c] < LookupDeadline
    /\ NothingResolved(c, "lookup failed")

\* The lookups have not completed when the strategy timeout is over: the
\* resolver reports LookupFailed for them.
LookupTimesOut(c) ==
    /\ Resolving(c)
    /\ ws_elapsed[c] >= LookupDeadline
    /\ NothingResolved(c, "lookup timed out")

\* The clock moves on, not beyond the strategy timeout of a lookup that is
\* running.
ResolvingAdvance(d) ==
    /\ ConnectAdvance(d)
    /\ \A c \in Callers : Resolving(c) => ws_elapsed[c] + d <= LookupDeadline

\* The steps of the clock, with those to the moments at which a lookup of
\* the tests answers and at which the strategy gives up.
ResolvingClockSteps ==
    IF Resolving("c1")
    THEN {d \in {SLOW_LOOKUP - ws_elapsed["c1"],
                 LookupDeadline - ws_elapsed["c1"],
                 CONNECT_TIMEOUT - ws_elapsed["c1"]} : d > 0}
    ELSE ClockSteps

\* One task calls connect_ws with routes that have to be resolved first,
\* and the clock runs.
ResolvingNext ==
    \/ \E rs \in RouteLists :
          connect_ws("c1", rs) /\ UNCHANGED <<registrationVars, connectorVars>>
    \/ ReadLocked("c1") /\ UNCHANGED <<registrationVars, connectorVars>>
    \/ ResolvingTakeSnapshot("c1")
          /\ UNCHANGED <<registrationVars, connectorVars>>
    \/ NoRoutes("c1") /\ UNCHANGED <<registrationVars, connectorVars>>
    \/ LookupResolves("c1") /\ UNCHANGED <<registrationVars, connectorVars>>
    \/ LookupFails("c1") /\ UNCHANGED <<registrationVars, connectorVars>>
    \/ LookupTimesOut("c1") /\ UNCHANGED <<registrationVars, connectorVars>>
    \/ \E i \in DOMAIN attempts["c1"] :
          StartRoute("c1", i) /\ UNCHANGED <<registrationVars, connectorVars>>
    \/ \E i \in DOMAIN attempts["c1"] :
          RouteConnects("c1", i) /\ UNCHANGED <<registrationVars, connectorVars>>
    \/ \E i \in DOMAIN attempts["c1"] : \E err \in AttemptErrors :
          ConnectorFails("c1", i, err)
          /\ UNCHANGED <<registrationVars, connectorVars>>
    \/ \E i \in DOMAIN attempts["c1"] :
          RouteFails("c1", i) /\ UNCHANGED <<registrationVars, connectorVars>>
    \/ TimeoutElapsed("c1") /\ UNCHANGED <<registrationVars, connectorVars>>
    \/ WriteLocked("c1") /\ UNCHANGED <<registrationVars, connectorVars>>
    \/ ApplyUpdates("c1") /\ UNCHANGED <<registrationVars, connectorVars>>
    \/ \E d \in ResolvingClockSteps :
          ResolvingAdvance(d) /\ UNCHANGED <<registrationVars, connectorVars>>

ResolvingSpec == Init /\ [][ResolvingNext]_vars

\* ------------------------------------------- the default transport connector

\* DefaultConnectorFactory::make: TCP (direct or through a proxy) below a
\* ThrottlingConnector for the TLS handshake.  A route that is started
\* connects TCP, then waits for a permit of the throttle, then does its
\* handshake; the connector is made for one call and dropped with its race.
Handshakes(c) == {i \in DOMAIN tls[c] : tls[c][i] = "handshake"}

\* The race is set up with a connector that has nothing in progress.
DefaultTakeSnapshot(c) ==
    /\ TakeSnapshot(c)
    /\ tls' = [tls EXCEPT ![c] = [i \in 1..Len(routes[c]) |-> "none"]]
    /\ UNCHANGED <<ws_kind, preconnected, preconnected_age>>

\* A route is started: its TCP connect begins.
DefaultStartRoute(c, i) ==
    /\ StartRoute(c, i)
    /\ tls' = [tls EXCEPT ![c][i] = "tcp"]
    /\ UNCHANGED <<ws_kind, preconnected, preconnected_age>>

\* The TCP connection of a route is there: the route asks the throttle for
\* a permit.
TcpConnected(c, i) ==
    /\ ws_pc[c] = "racing"
    /\ ~ErrorAtHand(c)
    /\ tls[c][i] = "tcp"
    /\ tls' = [tls EXCEPT ![c][i] = "throttled"]
    /\ UNCHANGED <<registrationVars, connectVars, ws_kind, preconnected,
                   preconnected_age>>

\* A throttle that gives a permit to whoever asks.
HandshakeStartsUnthrottled(c, i) ==
    /\ ws_pc[c] = "racing"
    /\ ~ErrorAtHand(c)
    /\ tls[c][i] = "throttled"
    /\ tls' = [tls EXCEPT ![c][i] = "handshake"]
    /\ UNCHANGED <<registrationVars, connectVars, ws_kind, preconnected,
                   preconnected_age>>

\* The throttle has a permit left: the route gets it and its TLS handshake
\* begins.
HandshakeStarts(c, i) ==
    /\ ws_pc[c] = "racing"
    /\ ~ErrorAtHand(c)
    /\ tls[c][i] = "throttled"
    /\ Cardinality(Handshakes(c)) < TLS_HANDSHAKE_LIMIT
    /\ tls' = [tls EXCEPT ![c][i] = "handshake"]
    /\ UNCHANGED <<registrationVars, connectVars, ws_kind, preconnected,
                   preconnected_age>>

\* The handshake of a route completes: the connector returns Ok.
HandshakeCompletes(c, i) ==
    /\ tls[c][i] = "handshake"
    /\ RouteConnects(c, i)
    /\ tls' = [tls EXCEPT ![c] = <<>>]
    /\ UNCHANGED <<ws_kind, preconnected, preconnected_age>>

\* A dropped attempt that keeps what it had of the throttle.
DefaultConnectorFailsKeepingPermit(c, i, err) ==
    /\ \/ tls[c][i] \in {"tcp", "handshake"}
       \/ tls[c][i] = "throttled" /\ err = "InterfaceChanged"
    /\ ConnectorFails(c, i, err)
    /\ UNCHANGED <<ws_kind, preconnected, preconnected_age, tls>>

\* The TCP connect or the handshake of a route fails, or the InterfaceMonitor
\* gives the route up with InterfaceChanged and drops the attempt of the
\* throttled connector, which it can do as well while the attempt waits for
\* a permit: the attempt no longer waits, and its permit, if it had one, is
\* free again.
DefaultConnectorFails(c, i, err) ==
    /\ \/ tls[c][i] \in {"tcp", "handshake"}
       \/ tls[c][i] = "throttled" /\ err = "InterfaceChanged"
    /\ ConnectorFails(c, i, err)
    /\ tls' = [tls EXCEPT ![c][i] = "none"]
    /\ UNCHANGED <<ws_kind, preconnected, preconnected_age>>

\* The closure is asked about the error; the connector is dropped if the
\* race ends.
DefaultRouteFails(c, i) ==
    /\ RouteFails(c, i)
    /\ tls' = IF ws_pc'[c] = "racing" THEN tls ELSE [tls EXCEPT ![c] = <<>>]
    /\ UNCHANGED <<ws_kind, preconnected, preconnected_age>>

\* The timeout drops the race and its connector.
DefaultTimeoutElapsed(c) ==
    /\ TimeoutElapsed(c)
    /\ tls' = [tls EXCEPT ![c] = <<>>]
    /\ UNCHANGED <<ws_kind, preconnected, preconnected_age>>

\* One task calls connect_ws on a ConnectState made by ConnectState::new,
\* and the clock runs.
DefaultConnectorNext ==
    \/ \E rs \in RouteLists :
          connect_ws("c1", rs) /\ UNCHANGED <<registrationVars, connectorVars>>
    \/ ReadLocked("c1") /\ UNCHANGED <<registrationVars, connectorVars>>
    \/ DefaultTakeSnapshot("c1") /\ UNCHANGED registrationVars
    \/ NoRoutes("c1") /\ UNCHANGED <<registrationVars, connectorVars>>
    \/ \E i \in DOMAIN attempts["c1"] :
          DefaultStartRoute("c1", i) /\ UNCHANGED registrationVars
    \/ \E i \in DOMAIN tls["c1"] : TcpConnected("c1", i)
    \/ \E i \in DOMAIN tls["c1"] : HandshakeStarts("c1", i)
    \/ \E i \in DOMAIN tls["c1"] :
          HandshakeCompletes("c1", i) /\ UNCHANGED registrationVars
    \/ \E i \in DOMAIN tls["c1"] : \E err \in AttemptErrors :
          DefaultConnectorFails("c1", i, err) /\ UNCHANGED registrationVars
    \/ \E i \in DOMAIN attempts["c1"] :
          DefaultRouteFails("c1", i) /\ UNCHANGED registrationVars
    \/ DefaultTimeoutElapsed("c1") /\ UNCHANGED registrationVars
    \/ WriteLocked("c1") /\ UNCHANGED <<registrationVars, connectorVars>>
    \/ ApplyUpdates("c1") /\ UNCHANGED <<registrationVars, connectorVars>>
    \/ \E d \in ClockSteps :
          ConnectAdvance(d) /\ UNCHANGED <<registrationVars, connectorVars>>

DefaultConnectorSpec == Init /\ [][DefaultConnectorNext]_vars

\* ------------------------------------ the WebSocket above the transport

\* connect_ws composes the WebSocket connector over the transport connector:
\* once the TLS handshake of a route is done its stream is handed to the
\* WebSocket handshake ("websocket").  The connection of the throttled
\* connector carries its permit, which is free again when the attempt ends.
PermitHoldersInHandshake(c) == Handshakes(c)

PermitHolders(c) ==
    {i \in DOMAIN tls[c] : tls[c][i] \in {"handshake", "websocket"}}

\* The routes of the race over which a WebSocket connection is open.
WebSockets(c) == {i \in DOMAIN tls[c] : tls[c][i] = "websocket"}

\* The throttle has a permit left: the route gets it and its TLS handshake
\* begins.
ThrottledHandshakeStarts(c, i) ==
    /\ ws_pc[c] = "racing"
    /\ ~ErrorAtHand(c)
    /\ tls[c][i] = "throttled"
    /\ Cardinality(PermitHolders(c)) < TLS_HANDSHAKE_LIMIT
    /\ tls' = [tls EXCEPT ![c][i] = "handshake"]
    /\ UNCHANGED <<registrationVars, connectVars, ws_kind, preconnected,
                   preconnected_age>>

\* The transport of a route is connected: the WebSocket connection is
\* opened over it and the handshake request is sent.
TransportConnected(c, i) ==
    /\ ws_pc[c] = "racing"
    /\ ~ErrorAtHand(c)
    /\ tls[c][i] = "handshake"
    /\ tls' = [tls EXCEPT ![c][i] = "websocket"]
    /\ UNCHANGED <<registrationVars, connectVars, ws_kind, preconnected,
                   preconnected_age>>

\* The server answers the WebSocket handshake: the connector returns Ok.
WebSocketResponds(c, i) ==
    /\ tls[c][i] = "websocket"
    /\ RouteConnects(c, i)
    /\ tls' = [tls EXCEPT ![c] = <<>>]
    /\ UNCHANGED <<ws_kind, preconnected, preconnected_age>>

\* The WebSocket handshake of a route fails, or its stream is closed: the
\* attempt ends and its permit is free again.
WebSocketFails(c, i, err) ==
    /\ tls[c][i] = "websocket"
    /\ ConnectorFails(c, i, err)
    /\ tls' = [tls EXCEPT ![c][i] = "none"]
    /\ UNCHANGED <<ws_kind, preconnected, preconnected_age>>

\* One task calls connect_ws on a ConnectState made by ConnectState::new;
\* the WebSocket of a route may answer, fail or stay silent, and the clock
\* runs.
WebSocketNext ==
    \/ \E rs \in RouteLists :
          connect_ws("c1", rs) /\ UNCHANGED <<registrationVars, connectorVars>>
    \/ ReadLocked("c1") /\ UNCHANGED <<registrationVars, connectorVars>>
    \/ DefaultTakeSnapshot("c1") /\ UNCHANGED registrationVars
    \/ NoRoutes("c1") /\ UNCHANGED <<registrationVars, connectorVars>>
    \/ \E i \in DOMAIN attempts["c1"] :
          DefaultStartRoute("c1", i) /\ UNCHANGED registrationVars
    \/ \E i \in DOMAIN tls["c1"] : TcpConnected("c1", i)
    \/ \E i \in DOMAIN tls["c1"] : ThrottledHandshakeStarts("c1", i)
    \/ \E i \in DOMAIN tls["c1"] : TransportConnected("c1", i)
    \/ \E i \in DOMAIN tls["c1"] :
          WebSocketResponds("c1", i) /\ UNCHANGED registrationVars
    \/ \E i \in DOMAIN tls["c1"] : \E err \in AttemptErrors :
          DefaultConnectorFails("c1", i, err) /\ UNCHANGED registrationVars
    \/ \E i \in DOMAIN tls["c1"] : \E err \in AttemptErrors :
          WebSocketFails("c1", i, err) /\ UNCHANGED registrationVars
    \/ \E i \in DOMAIN attempts["c1"] :
          DefaultRouteFails("c1", i) /\ UNCHANGED registrationVars
    \/ DefaultTimeoutElapsed("c1") /\ UNCHANGED registrationVars
    \/ WriteLocked("c1") /\ UNCHANGED <<registrationVars, connectorVars>>
    \/ ApplyUpdates("c1") /\ UNCHANGED <<registrationVars, connectorVars>>
    \/ \E d \in ClockSteps :
          ConnectAdvance(d) /\ UNCHANGED <<registrationVars, connectorVars>>

WebSocketSpec == Init /\ [][WebSocketNext]_vars

\* ------------------------------------------------------------- properties

UnknownSendResults ==
    {"Unknown(websocket error)", "Unknown(received invalid response)",
     "Unknown(request had invalid header)"}

FatalConnectResults ==
    {"Unknown(invalid chat client configuration)", "RetryLater",
     "Unknown(unexpected error: unauthenticated socket signaled app expired)",
     "Unknown(unexpected error: unauthenticated socket signaled deregistration)"}

RetryableConnectErrors == {"Timeout", "AllAttemptsFailed", "WebSocket"}

FatalConnectErrors ==
    {"InvalidConnectionConfiguration", "RetryLater", "AppExpired",
     "DeviceDeregistered"}

\* The running call sees ConnectionLost on its sender: the channel is
\* closed, the responder was dropped without a reply, or chat.send yielded
\* Disconnected.
LostOnSender ==
    \/ pc = "send" /\ ~rx_open[call_sender]
    \/ pc = "await" /\ fates[cur] = {"dropped"}
    \/ pc = "await" /\ reply[cur] = ErrValue("Disconnected")

\* C1: send_request never returns ConnectionLost.  When the send on its
\* current sender reports ConnectionLost, the call (unless its caller drops
\* it) gives up that sender and starts spawn_connected_chat for the same
\* request without returning; and whenever it returns, it returns a
\* response, Timeout, an Unknown send error or a fatal connect error.
SendRequestHidesConnectionLost ==
    [][ /\ result' # "ConnectionLost"
        /\ (LostOnSender /\ pc' # pc /\ result' # "Cancelled")
             => /\ pc' = "connect"
                /\ call_sender' = 0
                /\ connect_calls' = 1
                /\ op' = op
                /\ result' = result
        /\ (pc # "idle" /\ pc' = "idle" /\ result' # "Cancelled")
             => result' \in {"Ok(Self)", "Ok(())", "ResponseError", "Timeout"}
                              \cup UnknownSendResults \cup FatalConnectResults
      ]_vars

\* A submit_request call whose request was sent again on a new sender.
ResentOnNewSender ==
    op = "submit" /\ pc = "await" /\ call_sender # service.sender

\* C2: in spawn_connected_chat a retryable connect error (Timeout,
\* AllAttemptsFailed, WebSocket) is never returned: the call sleeps and then
\* calls connect_chat once more, whatever the number of failures so far; so
\* a success after k failures is the (k+1)th call, and it yields a sender
\* whose channel is open, for a task spawned by this step.
ConnectRetriesUntilSuccess ==
    [][ /\ pc = "connected" => connect_calls = failure_count + 1
        /\ (pc = "connected" /\ connect_result \in RetryableConnectErrors)
             => /\ pc' = "sleep"
                /\ op' = op
                /\ result' = result
                /\ connect_calls' = connect_calls
                /\ task' = task
        /\ (pc = "sleep" /\ pc' # pc /\ result' # "Cancelled")
             => /\ pc' = "connect"
                /\ connect_calls' = connect_calls + 1
                /\ failure_count' = failure_count + 1
        /\ (pc = "connected" /\ connect_result = "Ok")
             => /\ pc' = "send"
                /\ result' = result
                /\ task[call_sender'] = "unspawned"
                /\ task'[call_sender'] = "running"
                /\ rx_open'[call_sender']
      ]_vars

\* connect_chat succeeded after MaxConnectFailures retryable failures.
ConnectedAfterFailures ==
    /\ pc = "connected"
    /\ connect_result = "Ok"
    /\ failure_count = MaxConnectFailures
    /\ connect_calls = MaxConnectFailures + 1

\* C3: when connect_chat fails with InvalidConnectionConfiguration,
\* RetryLater, AppExpired or DeviceDeregistered, the call returns the fatal
\* error in its next step: no sleep, no further connect_chat, no task
\* spawned, no sender kept, no request created, and create_session and
\* resume_session leave no RegistrationService.
FatalConnectErrorReturnsAtOnce ==
    [][ (pc = "connected" /\ connect_result \in FatalConnectErrors)
          => /\ pc' = "idle"
             /\ result' \in FatalConnectResults
             /\ (connect_result = "RetryLater") = (result' = "RetryLater")
             /\ call_sender' = 0
             /\ connect_calls' = 0
             /\ task' = task
             /\ rx_open' = rx_open
             /\ nreq' = nreq
             /\ service' = service
             /\ op \in {"create", "resume"} => ~service'.exists
      ]_vars

\* A call has returned a fatal connect error and there is no service.
FatalConnectErrorReturned ==
    pc = "idle" /\ result \in FatalConnectResults /\ ~service.exists

\* C4: the handler hands the RequestTimedOut of chat.send to the responder
\* as it is, and when the responder carries Err(RequestTimedOut) the call's
\* next step returns: RequestError::Timeout (unless the caller drops the
\* call), with no reconnect, no new request and nothing written to a
\* connection.
RequestTimedOutIsSurfaced ==
    [][ /\ \A h \in Handlers :
             (/\ fut[h] = "ready"
              /\ fut_result[h] = ErrValue("RequestTimedOut")
              /\ fates'[request_in_progress[h]] = {"sent"})
               => reply'[request_in_progress[h]] = ErrValue("RequestTimedOut")
        /\ (pc = "await" /\ reply[cur] = ErrValue("RequestTimedOut")
              /\ pc' # pc)
             => /\ pc' = "idle"
                /\ result' \in {"Timeout", "Cancelled"}
                /\ nreq' = nreq
                /\ task' = task
                /\ wire' = wire
      ]_vars

\* A call has returned RequestError::Timeout.
ReturnedTimeout == pc = "idle" /\ result = "Timeout"

\* C5: a handler has at most one request in flight on its ChatConnection,
\* the one in progress; and it takes a request from its channel (the head)
\* only when none is in progress and none is in flight.
OneRequestInFlight ==
    [][ \A h \in Handlers :
          /\ Cardinality(chat_sending'[h]) <= 1
          /\ chat_sending'[h] \subseteq {request_in_progress'[h]}
          /\ (request_in_progress'[h] # 0
                /\ request_in_progress'[h] # request_in_progress[h])
               => /\ request_in_progress[h] = 0
                  /\ chat_sending[h] = {}
                  /\ incoming_requests[h] # <<>>
                  /\ request_in_progress'[h] = Head(incoming_requests[h])
      ]_vars

\* A request waits in the channel while another is in flight.
QueuedBehindRequestInFlight ==
    \E h \in Handlers :
        /\ fut[h] = "sending"
        /\ chat_sending[h] # {}
        /\ incoming_requests[h] # <<>>

\* C6: a request is written to a connection only while its receiver exists
\* and its responder is unused; and when the handler starts on a request
\* whose receiver is already dropped, it writes nothing, has no request in
\* progress afterwards, keeps its channel open and starts a new inactivity
\* timeout.
DroppedRequestNeverWritten ==
    [][ \A h \in Handlers :
          /\ \A r \in Range(wire'[h]) \ Range(wire[h]) :
                receiver[r] # "dropped" /\ fates[r] = {}
          /\ (/\ fut[h] = "created"
              /\ receiver[request_in_progress[h]] = "dropped"
              /\ fut'[h] # "created"
              /\ task'[h] = "running")
               => /\ request_in_progress'[h] = 0
                  /\ wire'[h] = wire[h]
                  /\ chat_sending'[h] = {}
                  /\ rx_open'[h]
                  /\ idle_elapsed'[h] = 0
      ]_vars

\* A connected handler has taken from its channel a request whose receiver
\* is dropped, and has written nothing for it.
TookDroppedRequest ==
    \E h \in Handlers :
        /\ task[h] = "running"
        /\ chat_up[h]
        /\ fut[h] = "created"
        /\ receiver[request_in_progress[h]] = "dropped"
        /\ request_in_progress[h] \notin Range(wire[h])

\* C7: the responder of a request is used in at most one way (a value sent,
\* or dropped without one), a value is held only by a responder that sent
\* one, and every request that entered the channel of a task that has
\* ended has its responder used.
EachRequestDecidedOnce ==
    \A r \in Requests :
        /\ Cardinality(fates[r]) <= 1
        /\ reply[r] # NoValue => fates[r] = {"sent"}
        /\ (owner[r] # 0
              /\ task[owner[r]] \in {"disconnecting", "ended", "returned"})
             => fates[r] # {}

\* A request that entered the channel of a connected task after its
\* inactivity timeout was dropped when the task left its loop, while its
\* caller waits.
DroppedAtTaskEnd ==
    \E r \in Requests :
        /\ owner[r] # 0
        /\ task[owner[r]] = "disconnecting"
        /\ fates[r] = {"dropped"}
        /\ receiver[r] = "waiting"
        /\ ~lost_chat[r]

\* C8: a connected handler with a live sender leaves its loop only by the
\* inactivity timeout, and then exactly INACTIVITY_TIMEOUT after the timeout
\* was started, with no request in progress, in flight or in its channel;
\* an idle handler never waits longer; and once a task has left its loop
\* and dropped its stream its channel is closed, so a send on it fails.
IdleShutdownAtInactivityTimeout ==
    [][ \A h \in Handlers :
          /\ (task[h] = "running" /\ task'[h] = "breaking")
               => /\ idle_elapsed[h] = INACTIVITY_TIMEOUT
                  /\ request_in_progress[h] = 0
                  /\ chat_sending[h] = {}
                  /\ incoming_requests[h] = <<>>
          /\ (task[h] = "running" /\ task'[h] # "running"
                /\ chat_up[h] /\ SenderAlive(h))
               => task'[h] = "breaking"
          /\ IdleTimerArmed(h)' => idle_elapsed'[h] <= INACTIVITY_TIMEOUT
          /\ task'[h] \in {"disconnecting", "ended", "returned"}
               => ~rx_open'[h] /\ incoming_requests'[h] = <<>>
      ]_vars

\* A handler whose sender is still held has shut down after its inactivity
\* timeout.
InactivityShutdown ==
    \E h \in Handlers :
        task[h] = "disconnecting" /\ SenderAlive(h) /\ ~rx_open[h]

\* C9: a request whose chat connection went down while its caller waited
\* (before it reached the handler, or after) never gets a successful
\* response, and its caller does not wait forever: unless the caller gives
\* up first, the responder is used, so that the caller gets an error value
\* or a closed channel.
DisconnectFailsTheRequest ==
    /\ [](\A r \in Requests : lost_chat[r] => reply[r].tag # "Ok")
    /\ (\E r \in Requests :
           lost_chat[r] /\ fates[r] = {} /\ receiver[r] # "dropped")
         ~> (\A r \in Requests :
               lost_chat[r] => (fates[r] # {} \/ receiver[r] = "dropped"))

\* The caller of a request whose chat went down is about to see that its
\* responder was dropped by the task's return.
CallerSeesLostRequest ==
    \E r \in Requests :
        /\ lost_chat[r]
        /\ cur = r
        /\ pc = "await"
        /\ task[owner[r]] = "returned"
        /\ fates[r] = {"dropped"}

\* C10: the session of an existing RegistrationService changes only in the
\* step in which submit_request returns Ok(()) for a response that parses,
\* and then to that response's session; when submit_request returns an
\* error the session is as before; session_id never changes.
SessionChangesOnlyOnSuccess ==
    [][ (service.exists /\ service'.exists)
          => /\ service'.session_id = service.session_id
             /\ service'.session # service.session
                  => /\ op = "submit"
                     /\ pc = "await"
                     /\ result' = "Ok(())"
                     /\ reply[cur].tag = "Ok"
                     /\ ParsesAsRegistrationResponse(reply[cur].response)
                     /\ service'.session = reply[cur].response.session
             /\ (op = "submit" /\ pc # "idle" /\ pc' = "idle"
                   /\ result' # "Ok(())")
                  => service'.session = service.session
      ]_vars

\* submit_request has returned Ok(()) and the service holds a session.
SubmitStoredSession ==
    /\ pc = "idle"
    /\ result = "Ok(())"
    /\ service.exists
    /\ service.session \in Sessions

\* C11: when create_session returns Ok(Self), the service it returns holds
\* the session and the session_id of the response the server sent for the
\* request (what session_state() and session_id() return).
CreateSessionStoresResponse ==
    [][ (op = "create" /\ pc # "idle" /\ pc' = "idle" /\ result' = "Ok(Self)")
          => /\ pc = "await"
             /\ reply[cur].tag = "Ok"
             /\ service'.exists
             /\ service'.session = reply[cur].response.session
             /\ service'.session_id = reply[cur].response.session_id
      ]_vars

\* create_session has returned a service whose session_id is the second
\* id a server may report.
CreatedSessionWithServerId ==
    /\ op = "none"
    /\ pc = "idle"
    /\ result = "Ok(Self)"
    /\ service.exists
    /\ service.session_id = "s2"
    /\ service.session = "v2"

\* C12: a connect_ws call whose race does not conclude returns Timeout
\* exactly when connect_timeout has elapsed since the race started: a race
\* never runs longer than connect_timeout, Timeout is returned only at that
\* moment and reports attempt_duration = connect_timeout, and a call leaves
\* its race without a result of the race only with Timeout.
ConnectTimeoutIsExact ==
    [][ \A c \in Callers :
          /\ ws_pc[c] = "racing" => ws_elapsed[c] <= CONNECT_TIMEOUT
          /\ (ws_result[c].tag # "Timeout" /\ ws_result'[c].tag = "Timeout")
               => /\ ws_pc[c] = "racing"
                  /\ ws_elapsed[c] = CONNECT_TIMEOUT
                  /\ ws_result'[c].attempt_duration = CONNECT_TIMEOUT
          /\ (ws_pc[c] = "racing" /\ ws_pc'[c] = "idle")
               => /\ ws_result'[c].tag = "Timeout"
                  /\ ws_elapsed[c] = CONNECT_TIMEOUT
      ]_vars

\* connect_ws has returned Timeout for routes that were all started and
\* never answered.
ReturnedConnectTimeout ==
    /\ ws_pc["c1"] = "idle"
    /\ ws_result["c1"].tag = "Timeout"
    /\ attempts_record = NewRecord

\* C13: whenever connect_ws returns Ok, a route of its input connected in
\* its race, the connection it returns is the one made over that route and
\* the RouteInfo it returns holds the description of that route.
RouteInfoDescribesConnectedRoute ==
    [][ \A c \in Callers :
          (ws_pc[c] = "apply" /\ ws_pc'[c] = "idle"
             /\ ws_result'[c].tag = "Ok")
            => \E i \in DOMAIN routes[c] :
                  /\ attempts[c][i] = "connected"
                  /\ ws_result'[c].connection = routes[c][i]
                  /\ ws_result'[c].route_info
                       = [unresolved |-> Describe(routes[c][i])]
      ]_vars

\* connect_ws has returned the connection over the third route and its
\* description.
ReturnedRouteInfo ==
    /\ ws_pc["c1"] = "idle"
    /\ ws_result["c1"].tag = "Ok"
    /\ ws_result["c1"].connection = "r3"
    /\ ws_result["c1"].route_info = [unresolved |-> Describe("r3")]

\* C14: a route whose connect error is classified Intermittent does not
\* end the race: the route is marked failed, the other routes keep their
\* state and the race goes on unless every route has failed; when the call
\* applies its updates the failure is in the registry entry of the route's
\* transport (unless that transport also connected); and a route that
\* connects gives Ok whatever failed before it.
IntermittentFailureContinues ==
    [][ \A c \in Callers :
          /\ \A i \in DOMAIN attempts[c] :
                /\ ( /\ ws_pc[c] = "racing"
                     /\ attempts[c][i] \in AttemptErrors
                     /\ attempts'[c][i] # attempts[c][i]
                     /\ Classify(FromWebsocketError(IntoInnerOrElse(
                                    attempts[c][i]))) = "Intermittent" )
                   => /\ attempts'[c][i] = "failed"
                      /\ ws_result'[c].tag # "FatalConnect"
                      /\ (\E j \in DOMAIN attempts[c] :
                             j # i /\ attempts[c][j] # "failed")
                           => /\ ws_pc'[c] = "racing"
                              /\ \A j \in DOMAIN attempts[c] :
                                    j # i => attempts'[c][j] = attempts[c][j]
                /\ ( /\ attempts[c][i] = "running"
                     /\ i \in DOMAIN attempts'[c]
                     /\ attempts'[c][i] = "connected" )
                   => /\ ws_result'[c].tag = "Ok"
                      /\ ws_result'[c].connection = routes[c][i]
          /\ (ws_pc[c] = "apply" /\ ws_pc'[c] = "idle")
               => \A i \in DOMAIN attempts[c] :
                     ( /\ attempts[c][i] = "failed"
                       /\ \A j \in DOMAIN attempts[c] :
                             attempts[c][j] = "connected"
                               => TransportOf(routes[c][j])
                                    # TransportOf(routes[c][i]) )
                     => /\ attempts_record'[TransportOf(routes[c][i])].count >= 1
                        /\ attempts_record'[TransportOf(routes[c][i])].age = 0 ]_vars

\* The first call has returned Ok over r2 and the failure of r1 is in the
\* registry.
ConnectedAfterIntermittentFailure ==
    /\ ncalls = 1
    /\ ws_pc["c1"] = "idle"
    /\ ws_result["c1"].tag = "Ok"
    /\ ws_result["c1"].connection = "r2"
    /\ attempts_record["tA"].count = 1
    /\ attempts_record["tB"] = NoFailures

\* C15: a connect error classified Fatal ends the race: the call leaves the
\* race with FatalConnect carrying that error, a ClientAbort of the
\* transport connector giving FatalConnect(Connect(Transport(ClientAbort)));
\* once the race has ended no route is started, and connect_ws returns the
\* FatalConnect unchanged.
FatalErrorEndsTheRace ==
    [][ \A c \in Callers :
          /\ \A i \in DOMAIN attempts[c] :
                ( /\ ws_pc[c] = "racing"
                  /\ attempts[c][i] \in AttemptErrors
                  /\ attempts'[c][i] # attempts[c][i]
                  /\ Classify(FromWebsocketError(IntoInnerOrElse(
                                 attempts[c][i]))) = "Fatal" )
                => /\ ws_pc'[c] = "write"
                   /\ ws_result'[c] =
                        [tag |-> "FatalConnect",
                         error |-> FromWebsocketError(IntoInnerOrElse(
                                       attempts[c][i]))]
                   /\ attempts[c][i] = "ClientAbort"
                        => ws_result'[c].error
                             = "Connect(Transport(ClientAbort))"
                   /\ \A j \in DOMAIN attempts[c] :
                         attempts'[c][j] \notin {"scheduled", "running"}
          /\ ws_pc[c] \in {"write", "apply"}
               => /\ \A j \in DOMAIN attempts[c] :
                        attempts[c][j] \notin {"scheduled", "running"}
                  /\ attempts'[c] \in {attempts[c], <<>>}
          /\ (ws_pc[c] = "apply" /\ ws_result[c].tag = "FatalConnect")
               => ws_result'[c] = ws_result[c] ]_vars

\* The first call has returned the ClientAbort of a route as FatalConnect
\* and has recorded no failure.
ReturnedFatalClientAbort ==
    /\ ncalls = 1
    /\ ws_pc["c1"] = "idle"
    /\ ws_result["c1"] = [tag |-> "FatalConnect",
                          error |-> "Connect(Transport(ClientAbort))"]
    /\ attempts_record = NewRecord

\* C16, as the claim states it: a connect error classified RetryAt is
\* handled like Intermittent, the race goes on with the routes that are left
\* and does not end with an error because of it.
RetryAtContinuesTheRace ==
    [][ \A c \in Callers : \A i \in DOMAIN attempts[c] :
          ( /\ ws_pc[c] = "racing"
            /\ attempts[c][i] \in AttemptErrors
            /\ attempts'[c][i] # attempts[c][i]
            /\ Classify(FromWebsocketError(IntoInnerOrElse(
                           attempts[c][i]))) = "RetryAt" )
          => /\ attempts'[c][i] = "failed"
             /\ ws_result'[c].tag # "FatalConnect"
             /\ (\E j \in DOMAIN attempts[c] :
                    j # i /\ attempts[c][j] # "failed")
                  => ws_pc'[c] = "racing" ]_vars

\* C16: a connect error classified RetryAt is handled like Fatal: it ends
\* the race, the call leaves the race with FatalConnect carrying that error,
\* no route is started after it and connect_ws returns the FatalConnect.
RetryAtEndsTheRace ==
    [][ \A c \in Callers :
          /\ \A i \in DOMAIN attempts[c] :
                ( /\ ws_pc[c] = "racing"
                  /\ attempts[c][i] \in AttemptErrors
                  /\ attempts'[c][i] # attempts[c][i]
                  /\ Classify(FromWebsocketError(IntoInnerOrElse(
                                 attempts[c][i]))) = "RetryAt" )
                => /\ ws_pc'[c] = "write"
                   /\ ws_result'[c] =
                        [tag |-> "FatalConnect",
                         error |-> FromWebsocketError(attempts[c][i])]
                   /\ \A j \in DOMAIN attempts[c] :
                         attempts'[c][j] \notin {"scheduled", "running"}
          /\ ( /\ ws_pc[c] \in {"write", "apply"}
               /\ ws_result[c].tag = "FatalConnect"
               /\ Classify(ws_result[c].error) = "RetryAt" )
               => /\ \A j \in DOMAIN attempts[c] :
                        attempts[c][j] \in {"failed", "cancelled"}
                  /\ ws_pc'[c] = "idle" => ws_result'[c] = ws_result[c] ]_vars

\* connect_ws has returned the server's RetryAfter as FatalConnect.
ReturnedFatalRetryAfter ==
    /\ ws_pc["c1"] = "idle"
    /\ ws_result["c1"] = [tag |-> "FatalConnect",
                          error |-> "RejectedByServer(RetryAfter)"]

\* C17: a call in which a route of one transport failed while a route of
\* another transport connected leaves the failure in the registry and none
\* for the transport that connected; and a call that reads such a registry,
\* the failure not yet older than age_cutoff, starts no route of the failing
\* transport while a route of the other transport is still waiting to be
\* started, wherever the routes are in the list, starts it only once its
\* delay has elapsed, and never starts it if the other route connects
\* before that.
LearnsFromOutcomes ==
    [][ \A c \in Callers : \A i, j \in DOMAIN attempts[c] :
          LET t == TransportOf(routes[c][i])
              u == TransportOf(routes[c][j])
          IN  /\ ( /\ ws_pc[c] = "apply" /\ ws_pc'[c] = "idle"
                   /\ t # u
                   /\ attempts[c][i] = "failed"
                   /\ attempts[c][j] = "connected"
                   /\ \A k \in DOMAIN attempts[c] :
                         attempts[c][k] = "connected" => k = j )
                 => /\ attempts_record'[t].count >= 1
                    /\ attempts_record'[t].age = 0
                    /\ attempts_record'[u] = NoFailures
              /\ ( /\ ws_pc[c] = "racing"
                   /\ t # u
                   /\ snapshot[c][t].count >= 1
                   /\ snapshot[c][t].age \in 0 .. SUGGESTED_age_cutoff - 1
                   /\ snapshot[c][u] = NoFailures
                   /\ attempts[c][i] = "scheduled" )
                 => /\ attempts[c][j] = "scheduled"
                         => (i \in DOMAIN attempts'[c]
                               => attempts'[c][i] # "running")
                    /\ (i \in DOMAIN attempts'[c] /\ attempts'[c][i] = "running")
                         => ws_elapsed[c] >= suggested_delay(snapshot[c][t].age,
                                                             snapshot[c][t].count)
                    /\ (attempts[c][j] = "running" /\ ws_pc'[c] = "write"
                          /\ attempts'[c][j] = "connected")
                         => attempts'[c][i] = "cancelled" ]_vars

\* The second call reads the failure of r1's transport that the first call
\* left and has started r2 while r1, listed first, waits.
StartedLearnedRouteFirst ==
    /\ ncalls = 2
    /\ ws_pc["c1"] = "racing"
    /\ routes["c1"] = <<"r1", "r2">>
    /\ snapshot["c1"]["tA"] = [count |-> 1, age |-> 0]
    /\ snapshot["c1"]["tB"] = NoFailures
    /\ attempts["c1"] = <<"scheduled", "running">>

\* C18: in every reachable state, for the registry and for every snapshot a
\* call has taken of it, the failure counter of each transport is at most
\* max_count and the delay computed for it is at most max_delay.
RegistryStaysBounded ==
    \A t \in Transports :
       \A record \in {attempts_record} \cup {snapshot[c] : c \in Callers} :
          /\ record[t].count \in 0 .. SUGGESTED_max_count
          /\ suggested_delay(record[t].age, record[t].count)
               \in 0 .. SUGGESTED_max_delay

\* Failures beyond max_count have been recorded for a transport: its counter
\* stands at max_count and its delay at max_delay.
CounterAtMaxCount ==
    /\ attempts_record["tB"] = [count |-> SUGGESTED_max_count, age |-> 0]
    /\ suggested_delay(0, SUGGESTED_max_count) = SUGGESTED_max_delay
    /\ ncalls = MaxCalls
    /\ ws_pc["c1"] = "idle"
    /\ ws_result["c1"].tag = "AllAttemptsFailed"

\* C19: when network_changed returns every failure counter of the registry
\* is zero; a counter leaves zero only when a call applies its updates; a
\* call takes as its snapshot the registry as it is; and a race whose
\* snapshot has every counter at zero gives no route a delay.
NetworkChangeForgetsFailures ==
    [][ /\ (net_pc = "reset" /\ net_pc' = "idle")
          => \A t \in Transports : attempts_record'[t] = NoFailures
        /\ \A t \in Transports :
             (attempts_record[t].count = 0 /\ attempts_record'[t].count # 0)
               => \E c \in Callers : ws_pc[c] = "apply" /\ ws_pc'[c] = "idle"
        /\ \A c \in Callers :
             /\ (ws_pc[c] = "snapshot" /\ ws_pc'[c] = "racing")
                  => snapshot'[c] = attempts_record
             /\ ( /\ ws_pc'[c] = "racing"
                  /\ \A t \in Transports : snapshot'[c][t].count = 0 )
                  => \A i \in DOMAIN routes'[c] :
                        DelayBasedOnTransport(snapshot'[c], routes'[c][i]) = 0 ]_vars

\* network_changed has emptied a registry in which a failure was recorded:
\* a race that began before it still holds the failure in its snapshot.
ResetForgotFailures ==
    /\ nchanges = 1
    /\ net_pc = "idle"
    /\ attempts_record = NewRecord
    /\ ws_pc["c1"] = "racing"
    /\ snapshot["c1"]["tA"].count = 1

\* C20: a call holds the read lock only while it takes its snapshot and
\* the write lock only while it applies its updates, so it holds no lock
\* while it races; its snapshot is the registry as it was under the read
\* lock and does not change during the race; the registry changes only in
\* the step of the task that holds the write lock, and a call that applies
\* its updates writes all of them in that one step onto the registry as it
\* then is.  Therefore, with two calls and a network change at once,
\* whenever a task holds the lock or waits for it there comes a moment at
\* which the lock is free and no task waits for it: every task that waited
\* has got the lock and dropped it, and every race that had concluded has
\* had its updates applied.
SnapshotThenBatchWrite ==
    /\ [](\A c \in Callers :
            /\ c \in lock.readers <=> ws_pc[c] = "snapshot"
            /\ lock.writer = c <=> ws_pc[c] = "apply"
            /\ lock.writer = "net" <=> net_pc = "reset"
            /\ lock.writer # "none" => lock.readers = {})
    /\ [][ /\ \A c \in Callers :
               /\ snapshot'[c] # snapshot[c]
                    => \/ /\ ws_pc[c] = "snapshot" /\ ws_pc'[c] = "racing"
                          /\ c \in lock.readers
                          /\ snapshot'[c] = attempts_record
                       \/ ws_pc[c] = "racing" /\ ws_pc'[c] \in {"write", "idle"}
               /\ (ws_pc[c] = "apply" /\ ws_pc'[c] = "idle")
                    => \A t \in Transports :
                          attempts_record'[t] =
                            apply_outcome_updates(attempts_record[t],
                                                  Failed(c, t), Succeeded(c, t))
           /\ attempts_record' # attempts_record
                => \/ \E c \in Callers :
                         /\ lock.writer = c
                         /\ ws_pc[c] = "apply" /\ ws_pc'[c] = "idle"
                   \/ lock.writer = "net" /\ net_pc' = "idle" ]_vars
    /\ (lock # Unlocked \/ \E c \in Callers : ws_pc[c] \in {"read", "write"})
         ~> /\ lock = Unlocked
            /\ \A c \in Callers : ws_pc[c] \in {"racing", "idle"}

\* One call waits for the write lock with the updates of its race and the
\* other for the read lock while network_changed holds the write lock.
BothWaitForTheLock ==
    /\ lock.writer = "net"
    /\ ws_pc["c1"] = "write"
    /\ ws_pc["c2"] = "read"
    /\ \E t \in Transports : Failed("c1", t) > 0

\* C21: with the default transport connector at most one TLS handshake is
\* in progress within a call at any time; a route that is started begins
\* its TCP connect whatever handshake is pending; a handshake begins only
\* when no handshake of that call is pending, so that as long as one stays
\* pending no other one begins.
OneTlsHandshakeAtATime ==
    /\ [](\A c \in Callers : Cardinality(Handshakes(c)) <= 1)
    /\ [][ \A c \in Callers : \A i \in DOMAIN tls[c] :
             /\ ( /\ i \in DOMAIN tls'[c]
                  /\ tls[c][i] # "handshake"
                  /\ tls'[c][i] = "handshake" )
                => Handshakes(c) = {}
             /\ ( /\ i \in DOMAIN attempts'[c]
                  /\ attempts[c][i] = "scheduled"
                  /\ attempts'[c][i] = "running" )
                => tls'[c][i] = "tcp" ]_vars

\* The handshake of the first route has not completed when connect_timeout
\* is reached: the second route has its TCP connection and still waits for
\* the throttle.
HandshakePendingAtTimeout ==
    /\ ws_pc["c1"] = "racing"
    /\ ws_elapsed["c1"] = CONNECT_TIMEOUT
    /\ attempts["c1"] = <<"running", "running">>
    /\ tls["c1"] = <<"handshake", "throttled">>

ResumeKeepsCallerId ==
    [][ (op = "resume" /\ pc # "idle" /\ pc' = "idle" /\ result' = "Ok(Self)")
          => /\ pc = "await"
             /\ reply[cur].tag = "Ok"
             /\ resume_id \in ResumeIds
             /\ service'.exists
             /\ service'.session_id = resume_id
             /\ service'.session = reply[cur].response.session
      ]_vars

\* resume_session("s1") has returned a service; the response of the server
\* carried the session "v2" under the id "s2".
ResumedWithOtherServerId ==
    /\ op = "none"
    /\ pc = "idle"
    /\ result = "Ok(Self)"
    /\ service.exists
    /\ service.session_id = "s1"
    /\ service.session = "v2"

RetryStateIsPerCall ==
    /\ [](pc \in {"connect", "connected"}
            => /\ (failure_count = 0) <=> (last_failure_at = -1)
               /\ connect_calls = failure_count + 1)
    /\ [][ /\ (pc \notin {"connect", "connected", "sleep"} /\ pc' = "connect")
               => /\ failure_count' = 0
                  /\ last_failure_at' = -1
                  /\ connect_calls' = 1
           /\ (pc = "connected" /\ pc' = "sleep")
               => /\ failure_count' = failure_count
                  /\ sleep_left' = compute_delay(last_failure_at, failure_count)
                  /\ failure_count = 0 => sleep_left' = 0
                  /\ last_failure_at' = 0
           /\ (pc = "sleep" /\ pc' = "connect")
               => /\ sleep_left = 0
                  /\ failure_count' = failure_count + 1
           /\ (pc \in {"connect", "connected", "sleep"}
                 /\ pc' \in {"connect", "connected", "sleep"}
                 /\ ~(pc = "sleep" /\ pc' = "connect"))
               => failure_count' = failure_count ]_vars

\* A connection was made and lost, and the call connects again: the first
\* failure of this second spawn_connected_chat is followed by no delay, and
\* no failure is counted yet.
SecondSpawnRetriesAtOnce ==
    /\ pc = "sleep"
    /\ failure_count = 0
    /\ sleep_left = 0
    /\ last_failure_at = 0
    /\ nreq >= 1
    /\ \E h \in Handlers : task[h] \in {"ended", "returned"}

\* C36: the delay that spawn_connected_chat sleeps after a retryable failure
\* is compute_delay of the time since the failure before it and of the
\* number of failures so far; it is at most max_delay (30 s), it is 0 when
\* that time is at least age_cutoff, and with one more failure it is not
\* shorter, nor with one failure fewer longer.
DelayIsMonotoneAndBounded ==
    /\ [](sleep_left <= MaxDelay /\ sleep_left >= 0)
    /\ [][ (pc = "connected" /\ pc' = "sleep")
             => /\ sleep_left' = compute_delay(last_failure_at, failure_count)
                /\ sleep_left' <= MaxDelay
                /\ last_failure_at >= AgeCutoff => sleep_left' = 0
                /\ sleep_left'
                     <= compute_delay(last_failure_at, failure_count + 1)
                /\ failure_count > 0
                     => compute_delay(last_failure_at, failure_count - 1)
                          <= sleep_left' ]_vars

\* The failure came less than a second after the one before it and is the
\* seventh of the call: the delay would be longer than max_delay and is cut
\* to it.
SleepsMaxDelay ==
    /\ pc = "sleep"
    /\ failure_count = MaxCount + 1
    /\ sleep_left = MaxDelay
    /\ last_failure_at = 0

\* C35: a request that is in the channel, unread, when the handler task
\* leaves its loop is not lost silently: it was never written, its
\* responder is dropped without a value, so that the caller, who waits for
\* it, gets ConnectionLost; the call then does not return but connects
\* again for the same operation, and when the new connection is there it
\* makes a new request for that operation and puts it to the new task.
UnreadRequestIsResent ==
    [][ /\ \A h \in Handlers : \A r \in Range(incoming_requests[h]) :
             (task[h] \in {"running", "breaking"}
                /\ task'[h] \notin {"running", "breaking"})
               => /\ r \notin Range(wire[h])
                  /\ IF receiver[r] = "waiting"
                     THEN /\ fates'[r] = {"dropped"}
                          /\ reply'[r] = NoValue
                          /\ receiver'[r] = "waiting"
                          /\ pc = "await" /\ cur = r
                          /\ pc' = pc /\ cur' = cur
                     ELSE fates'[r] = {"gone"}
        /\ ( /\ pc = "await" /\ fates[cur] = {"dropped"}
             /\ pc' # pc /\ result' # "Cancelled" )
             => /\ ReceiverOutcome(cur) = "ConnectionLost"
                /\ pc' = "connect"
                /\ op' = op /\ resume_id' = resume_id
                /\ result' = result
                /\ call_sender' = 0
        /\ (pc \in {"connect", "connected", "sleep"} /\ pc' # "idle")
             => op' = op /\ resume_id' = resume_id
        /\ (pc = "connected" /\ pc' = "send")
             => /\ cur' = nreq + 1
                /\ receiver'[cur'] = "waiting"
                /\ fates'[cur'] = {}
                /\ task[call_sender'] = "unspawned"
                /\ task'[call_sender'] = "running"
      ]_vars

\* The inactivity timeout has ended the loop of a task while the caller put
\* a request into its channel: the task is in chat.disconnect(), the
\* responder of the unread request is dropped, and the caller still waits.
UnreadRequestDroppedAtTimeout ==
    \E h \in Handlers :
       /\ task[h] = "disconnecting"
       /\ call_sender = h
       /\ pc = "await"
       /\ fates[cur] = {"dropped"}
       /\ receiver[cur] = "waiting"
       /\ reply[cur] = NoValue

\* C34: a handler task all of whose senders are dropped and which has no
\* request in progress ends without any time passing: it ends, and while
\* its channel is empty and its connection is up its only step is the one
\* that finds the channel closed and goes on to chat.disconnect(), never
\* the one of the inactivity timeout; a task ends in "ended" only out of
\* chat.disconnect().
ClosedChannelEndsTask ==
    /\ \A h \in Handlers :
          (task[h] = "running" /\ ~SenderAlive(h)
             /\ request_in_progress[h] = 0)
            ~> (task[h] \in {"ended", "returned"})
    /\ [][ \A h \in Handlers :
             /\ ( /\ task[h] = "running" /\ ~SenderAlive(h)
                  /\ request_in_progress[h] = 0
                  /\ incoming_requests[h] = <<>>
                  /\ chat_up[h] )
                  => /\ idle_elapsed'[h] = idle_elapsed[h] \/ idle_elapsed'[h] = 0
                     /\ \/ task'[h] = "disconnecting" /\ ~rx_open'[h]
                        \/ /\ task'[h] = "running" /\ ~chat_up'[h]
                           /\ request_in_progress'[h] = 0
             /\ (task[h] # "ended" /\ task'[h] = "ended")
                  => task[h] = "disconnecting" ]_vars

\* The service was dropped while its handler task was idle; no time has
\* passed, and the task has left its loop and is in chat.disconnect().
DisconnectingAfterServiceDropped ==
    \E h \in Handlers :
       /\ task[h] = "disconnecting"
       /\ ~SenderAlive(h)
       /\ ~service.exists
       /\ pc = "idle"
       /\ result = "Ok(Self)"
       /\ fates = [r \in Requests |-> IF r = 1 THEN {"gone"} ELSE {}]
       /\ listener_log[h] = <<"Finished">>

\* C33: the handler task sends the requests one at a time in the order in
\* which they entered its channel (requests are numbered as they are made,
\* and a channel holds them in that order): the task takes the request that
\* entered first among those in the channel, only while it has none in
\* progress; what it writes to the connection is the request in progress,
\* later than everything written before; and a request taken from the
\* channel is left unwritten only if its caller has cancelled it or the
\* connection is gone.
RequestsSentInChannelOrder ==
    /\ [](\A h \in Handlers :
            /\ \A i, j \in DOMAIN incoming_requests[h] :
                  i < j => incoming_requests[h][i] < incoming_requests[h][j]
            /\ \A i, j \in DOMAIN wire[h] : i < j => wire[h][i] < wire[h][j]
            /\ \A q \in Range(incoming_requests[h]) :
                  /\ q \notin Range(wire[h])
                  /\ \A r \in Range(wire[h]) : r < q
                  /\ request_in_progress[h] # 0 => request_in_progress[h] < q)
    /\ [][ \A h \in Handlers :
             /\ request_in_progress'[h] \notin {0, request_in_progress[h]}
                   => /\ request_in_progress[h] = 0
                      /\ incoming_requests[h] # <<>>
                      /\ request_in_progress'[h] = Head(incoming_requests[h])
                      /\ incoming_requests'[h] = Tail(incoming_requests[h])
             /\ wire'[h] # wire[h]
                   => \/ task'[h] # "running" /\ wire'[h] = <<>>
                      \/ /\ fut[h] = "created"
                         /\ wire'[h] = Append(wire[h], request_in_progress[h])
                         /\ ~ResponderClosed(request_in_progress[h])
             /\ (fut[h] = "created" /\ fut'[h] # "created"
                   /\ wire'[h] = wire[h])
                   => \/ ResponderClosed(request_in_progress[h])
                      \/ ~chat_up[h]
                      \/ task'[h] # "running" ]_vars

\* The first request of the connection was written; the second was
\* cancelled while it was in the channel and was skipped; the third, which
\* entered the channel after it, was written.
WroteThirdAfterCancelledSecond ==
    \E h \in Handlers :
       /\ wire[h] = <<1, 3>>
       /\ fates[2] = {"gone"}
       /\ request_in_progress[h] = 3
       /\ fut[h] = "sending"

NoRoutesOrAllFailed ==
    [][ \A c \in Callers :
          /\ (ws_pc[c] = "racing" /\ routes[c] = <<>>)
               => /\ ws_elapsed[c] = 0 /\ attempts[c] = <<>>
                  /\ ws_pc'[c] # "racing"
                       => /\ ws_pc'[c] = "write"
                          /\ ws_result'[c] = [tag |-> "NoResolvedRoutes"]
          /\ (ws_result[c].tag # "NoResolvedRoutes"
                /\ ws_result'[c].tag = "NoResolvedRoutes")
               => ws_pc[c] = "racing" /\ routes[c] = <<>>
          /\ (ws_pc[c] = "racing" /\ routes[c] # <<>> /\ ws_pc'[c] = "write")
               => ( ws_result'[c].tag = "AllAttemptsFailed"
                    <=> \A i \in DOMAIN attempts'[c] :
                           attempts'[c][i] = "failed" ) ]_vars

\* After a call whose two routes both failed, a call without routes has
\* returned NoResolvedRoutes.
ReturnedNoResolvedRoutes ==
    /\ ncalls = 2
    /\ ws_pc["c1"] = "idle"
    /\ ws_result["c1"] = [tag |-> "NoResolvedRoutes"]
    /\ attempts_record["tB"].count = 2

\* C23: an InterfaceChanged error of a route ends the race of connect_ws
\* and of preconnect_and_save with a failure that carries ClientAbort: no
\* attempt of that race counts as connected, the call returns that failure
\* and preconnect_and_save saves nothing.
InterfaceChangeIsAFailure ==
    [][ \A c \in Callers :
          /\ \A i \in DOMAIN attempts[c] :
                ( /\ ws_pc[c] = "racing"
                  /\ attempts[c][i] = "InterfaceChanged"
                  /\ attempts'[c][i] # attempts[c][i] )
                => /\ ws_pc'[c] = "write"
                   /\ ws_result'[c] =
                        [tag |-> "FatalConnect",
                         error |-> IF ws_kind[c] = "connect_ws"
                                   THEN "Connect(Transport(ClientAbort))"
                                   ELSE "ClientAbort"]
                   /\ \A j \in DOMAIN attempts[c] :
                         attempts'[c][j] \in {"failed", "cancelled"}
          /\ ( /\ ws_pc[c] = "apply" /\ ws_pc'[c] = "idle"
               /\ ws_result[c].tag = "FatalConnect" )
               => /\ ws_result'[c] = ws_result[c]
                  /\ preconnected' = preconnected ]_vars

\* preconnect_and_save has returned the ClientAbort of a route whose
\* network interface changed, and nothing is saved.
PreconnectReturnedClientAbort ==
    /\ ws_kind["c1"] = "preconnect_and_save"
    /\ ws_pc["c1"] = "idle"
    /\ ws_result["c1"] = [tag |-> "FatalConnect", error |-> "ClientAbort"]
    /\ preconnected = "none"

RequestIdsInSubmissionOrder ==
    [](\A h \in Handlers :
         /\ Len(request_ids[h]) = Len(wire[h])
         /\ \A i \in DOMAIN request_ids[h] : request_ids[h][i] = i - 1
         /\ (fut[h] = "ready" /\ fut_result[h].tag = "Ok")
              <=> response_id[h] # -1
         /\ response_id[h] # -1 =>
              \E i \in DOMAIN wire[h] :
                 /\ wire[h][i] = request_in_progress[h]
                 /\ request_ids[h][i] = response_id[h])

\* The second connection of the client returned the response with ID 1 to
\* its second request: the requests 2 and 3 of the client were written to it
\* with the IDs 0 and 1.
AnsweredSecondRequestAfterReconnect ==
    \E h \in Handlers :
       /\ h > 1
       /\ wire[h] = <<2, 3>>
       /\ request_ids[h] = <<0, 1>>
       /\ request_in_progress[h] = 3
       /\ response_id[h] = 1

ShutdownAlwaysDisconnects ==
    [][\A h \in Handlers :
          (task[h] \in {"running", "breaking", "disconnecting"}
             /\ task'[h] \in {"ended", "returned"})
            => (task[h] = "disconnecting" /\ ~rx_open[h])
      ]_vars

\* C27: a handler task that shuts down because of the inactivity timeout or
\* because its channel of incoming requests is closed drops the stream of
\* incoming requests, calls chat.disconnect() and ends only after that; a
\* task that shuts down because on_disconnect fired drops the stream and ends
\* without calling chat.disconnect().
ShutdownDisconnectsUnlessDisconnected ==
    [][\A h \in Handlers :
          /\ (task[h] \in {"running", "breaking"}
                 /\ task'[h] \notin {"running", "breaking"})
              => /\ ~rx_open'[h]
                 /\ incoming_requests'[h] = <<>>
                 /\ \/ /\ task'[h] = "disconnecting"
                       /\ \/ task[h] = "breaking"
                          \/ /\ request_in_progress[h] = 0
                             /\ incoming_requests[h] = <<>>
                             /\ ~SenderAlive(h)
                    \/ /\ task'[h] = "returned"
                       /\ task[h] = "running"
                       /\ on_disconnect[h] = "dropped"
          /\ task[h] = "disconnecting"
              => task'[h] \in {"disconnecting", "ended"}
          /\ task'[h] = "ended" => task[h] \in {"disconnecting", "ended"}
      ]_vars

\* A task has returned on Event::Disconnected without calling
\* chat.disconnect(): on_disconnect had fired, the stream of incoming
\* requests is dropped, and the responder of a request was dropped with the
\* task while its caller waits.
ReturnedOnDisconnectedEvent ==
    \E h \in Handlers, r \in Requests :
       /\ task[h] = "returned"
       /\ on_disconnect[h] = "dropped"
       /\ ~rx_open[h]
       /\ owner[r] = h
       /\ fates[r] = {"dropped"}
       /\ receiver[r] = "waiting"

\* C28: a connect_ws or preconnect_and_save call that ends because
\* connect_timeout elapsed returns from its race without taking the write
\* lock: the step that returns Timeout leaves the registry, the lock and the
\* saved preconnected connection as they are, and a call that goes on to the
\* write lock does not return Timeout.
TimeoutLeavesRegistryAlone ==
    [][\A c \in Callers :
          /\ (ws_pc[c] # "idle" /\ ws_pc'[c] = "idle"
                 /\ ws_result'[c].tag = "Timeout")
              => /\ ws_pc[c] = "racing"
                 /\ attempts_record' = attempts_record
                 /\ lock' = lock
                 /\ preconnected' = preconnected
          /\ ws_pc'[c] \in {"write", "apply"} => ws_result'[c].tag # "Timeout"
      ]_vars

\* preconnect_and_save has returned Timeout: no failure is recorded in the
\* registry and no connection is saved.
PreconnectTimedOutNothingSaved ==
    /\ ws_kind["c1"] = "preconnect_and_save"
    /\ ws_pc["c1"] = "idle"
    /\ ws_result["c1"].tag = "Timeout"
    /\ attempts_record = NewRecord
    /\ preconnected = "none"

\* C29: a race of connect_ws that concludes before the timeout, with Ok,
\* AllAttemptsFailed, NoResolvedRoutes or FatalConnect, sends the call to the
\* write lock; from there the call returns only through the step that
\* applies the outcome updates of the race to the registry, and it returns
\* the result the race had, an error as well as Ok.
ErrorResultStillUpdates ==
    [][\A c \in Callers :
          /\ (ws_pc[c] = "racing" /\ ws_pc'[c] # "racing")
              => \/ /\ ws_pc'[c] = "write"
                    /\ ws_result'[c].tag \in {"Ok", "AllAttemptsFailed",
                                              "NoResolvedRoutes", "FatalConnect"}
                 \/ /\ ws_pc'[c] = "idle"
                    /\ ws_result'[c].tag = "Timeout"
                    /\ ws_elapsed[c] >= CONNECT_TIMEOUT
          /\ ws_pc[c] = "write" => ws_pc'[c] \in {"write", "apply"}
          /\ ws_pc[c] = "apply" => ws_pc'[c] \in {"apply", "idle"}
          /\ (ws_pc[c] = "apply" /\ ws_pc'[c] = "idle")
              => /\ ws_result'[c].tag = ws_result[c].tag
                 /\ \A t \in Transports :
                       /\ (Failed(c, t) > 0 /\ ~Succeeded(c, t))
                            => attempts_record'[t] =
                                 [count |->
                                    Min(attempts_record[t].count + Failed(c, t),
                                        SUGGESTED_max_count),
                                  age |-> 0]
                       /\ Succeeded(c, t) => attempts_record'[t] = NoFailures
      ]_vars

\* The first connect_ws call has returned FatalConnect, and the intermittent
\* failure of another route of its race is recorded in the registry.
FatalReturnRecordedFailure ==
    /\ ncalls = 1
    /\ ws_pc["c1"] = "idle"
    /\ ws_result["c1"].tag = "FatalConnect"
    /\ \E t \in Transports : attempts_record[t].count = 1

\* C30: the preconnected stream changes only in the step in which a
\* preconnect_and_save call whose race succeeded holds the write lock, and
\* it then is the stream of the route that connected; that same step applies
\* the outcome updates of the race to the registry and frees the lock; a
\* call whose race failed applies the updates in that step as well, saves
\* nothing and returns the error of the race.
SavesOnlyOnSuccess ==
    [][/\ preconnected' # preconnected
          => \E c \in Callers :
                /\ ws_kind[c] = "preconnect_and_save"
                /\ ws_pc[c] = "apply" /\ ws_pc'[c] = "idle"
                /\ ws_result[c].tag = "Ok"
       /\ \A c \in Callers :
            (ws_kind[c] = "preconnect_and_save"
               /\ ws_pc[c] = "apply" /\ ws_pc'[c] = "idle")
            => /\ lock.writer = c
               /\ lock' = Unlocked
               /\ \A t \in Transports :
                     attempts_record'[t] =
                       apply_outcome_updates(attempts_record[t], Failed(c, t),
                                             Succeeded(c, t))
               /\ ws_result'[c].tag = ws_result[c].tag
               /\ IF ws_result[c].tag = "Ok"
                  THEN \E i \in DOMAIN routes[c] :
                          /\ attempts[c][i] = "connected"
                          /\ preconnected' = routes[c][i]
                  ELSE preconnected' = preconnected
      ]_vars

\* preconnect_and_save has returned Ok for a race in which the first route
\* failed and the second connected: the stream of the second route is saved
\* and the failure of the first is in the registry.
SavedSecondRoute ==
    /\ ncalls = 1
    /\ ws_kind["c1"] = "preconnect_and_save"
    /\ ws_pc["c1"] = "idle"
    /\ ws_result["c1"].tag = "Ok"
    /\ preconnected = "r2"
    /\ attempts_record["tA"].count = 1

\* C31: the connector holds one saved stream or none.  A route that is
\* started gets the saved stream only if the stream was saved for that very
\* route and is younger than the lifetime, and the stream is then removed
\* from the connector, so that no later route gets it; every other route
\* that is started gets its stream from the inner connector.  The saved
\* stream changes only when a route is started or a preconnect_and_save call
\* saves one.
CachedStreamHandedOutOnce ==
    /\ [](preconnected \in {"none", "r1", "r2", "r3"}
            /\ preconnected_age \in 0 .. PRECONNECT_LIFETIME)
    /\ [][ /\ \A c \in Callers : \A i \in DOMAIN attempts[c] :
               (ws_pc'[c] = "racing"
                  /\ attempts[c][i] = "scheduled" /\ attempts'[c][i] = "running")
               => IF /\ ws_kind[c] = "preconnect_and_save"
                     /\ preconnected = routes[c][i]
                     /\ preconnected_age < PRECONNECT_LIFETIME
                  THEN tls'[c][i] = "cached" /\ preconnected' = "none"
                  ELSE /\ tls'[c][i] = "delegated"
                       /\ preconnected' \in {preconnected, "none"}
           /\ \A c \in Callers : \A i \in DOMAIN tls[c] \cap DOMAIN tls'[c] :
               (tls[c][i] # "cached" /\ tls'[c][i] = "cached")
               => /\ preconnected = routes[c][i]
                  /\ preconnected_age < PRECONNECT_LIFETIME
                  /\ preconnected' = "none"
           /\ <<preconnected, preconnected_age # 0>>'
                 # <<preconnected, preconnected_age # 0>>
               => \/ \E c \in Callers : \E i \in DOMAIN attempts[c] :
                       /\ ws_pc'[c] = "racing"
                       /\ attempts[c][i] = "scheduled"
                       /\ attempts'[c][i] = "running"
                  \/ \E c \in Callers :
                       /\ ws_kind[c] = "preconnect_and_save"
                       /\ ws_pc[c] = "apply" /\ ws_pc'[c] = "idle"
                  \/ preconnected' = preconnected /\ preconnected # "none"
         ]_vars

\* The second preconnect_and_save call has started route r2 and got the
\* stream that the first call had saved for r2: the connector holds none now.
TookSavedStream ==
    /\ ncalls = 2
    /\ ws_kind["c1"] = "preconnect_and_save"
    /\ ws_pc["c1"] = "racing"
    /\ routes["c1"] = <<"r2", "r3">>
    /\ attempts["c1"][1] = "running"
    /\ tls["c1"][1] = "cached"
    /\ preconnected = "none"
====
